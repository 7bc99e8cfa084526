----------------------------- MODULE AwsProofs -----------------------------
(***************************************************************************)
(* The safety of AwsApply for any jobs, versions, names and commands at    *)
(* once: a schedule has the name of its job, one that is not cronix's is   *)
(* never touched, and a plan is empty exactly when the descriptions are    *)
(* those of the manifest and, until somebody edits one, the schedules too; *)
(* and that an apply without another command beside it converges.          *)
(***************************************************************************)
EXTENDS AwsApply, PlanProofs

-----------------------------------------------------------------------------
(* What EventBridge lists.                                                 *)

\* A schedule that is described has the name that its description says.
SchedulesOK ==
  /\ schedules \in [Name -> Schedule \cup {None, Undescribed}]
  /\ \A n \in Name :
       IsDescribed(n) =>
         ScheduleName[<<schedules[n].job, schedules[n].index>>] = n

LEMMA DescribedIs ==
  ASSUME SchedulesOK
  PROVE  /\ Described \in SUBSET Nat /\ IsFiniteSet(Described)
         /\ \A n \in Described :
              /\ n \in Name
              /\ schedules[n] \in Schedule
              /\ schedules[n].job \in Job /\ schedules[n].index \in Nat
              /\ ScheduleName[<<schedules[n].job, schedules[n].index>>] = n
  <1>1. /\ Described \in SUBSET Name
        /\ \A n \in Described : n \in Name /\ IsDescribed(n)
    BY DEF Described
  <1>2. Name \subseteq Nat /\ IsFiniteSet(Name)
    BY AwsAssumption
  <1>3. IsFiniteSet(Described)
    BY <1>1, <1>2, FS_Subset
  <1>4. \A n \in Described : schedules[n] \in Schedule
    BY <1>1 DEF SchedulesOK, IsDescribed
  <1>5. \A s \in Schedule : s.job \in Job /\ s.index \in Nat
    BY DEF Schedule
  <1> QED BY <1>1, <1>2, <1>3, <1>4, <1>5 DEF SchedulesOK

\* Each described schedule is listed once, by its job and index.
LEMMA ListIs ==
  ASSUME SchedulesOK
  PROVE  /\ IsListing(List)
         /\ \E size \in Nat : DOMAIN List = 1..size
         /\ \A k \in DOMAIN List : \E n \in Described : List[k] = Mark(schedules[n])
         /\ \A n \in Described : \E k \in DOMAIN List : List[k] = Mark(schedules[n])
         /\ \A k, l \in DOMAIN List :
              List[k].job = List[l].job /\ List[k].index = List[l].index => k = l
  <1> DEFINE names == InOrder(Described)
             size == Cardinality(Described)
  <1>1. /\ Described \in SUBSET Nat /\ IsFiniteSet(Described)
        /\ \A n \in Described :
             /\ schedules[n].job \in Job /\ schedules[n].index \in Nat
             /\ ScheduleName[<<schedules[n].job, schedules[n].index>>] = n
    BY DescribedIs
  <1>2. /\ size \in Nat /\ DOMAIN names = 1..size
        /\ \A k \in 1..size : names[k] \in Described
        /\ \A k, l \in 1..size : names[k] = names[l] => k = l
        /\ \A n \in Described : \E k \in 1..size : names[k] = n
    BY <1>1, InOrderLists
  <1>3. List = [k \in DOMAIN names |-> Mark(schedules[names[k]])]
    BY DEF List
  <1> HIDE DEF names, size
  <1>4. /\ DOMAIN List = 1..size
        /\ \A k \in 1..size : List[k] = Mark(schedules[names[k]])
    BY <1>2, <1>3
  <1>5. \A k \in 1..size : /\ List[k].job = schedules[names[k]].job
                           /\ List[k].index = schedules[names[k]].index
    <2> TAKE k \in 1..size
    <2>1. List[k] = Mark(schedules[names[k]])
      BY <1>4
    <2> QED BY <2>1 DEF Mark
  <1>6. IsListing(List)
    <2>1. IsFiniteSet(1..size) /\ 1..size \subseteq Nat
      BY <1>2, FS_Interval
    <2>2. \A k \in 1..size : List[k].index \in Nat
      BY <1>1, <1>2, <1>5
    <2> QED BY <1>4, <2>1, <2>2 DEF IsListing
  <1>7. \A k \in 1..size : ScheduleName[<<List[k].job, List[k].index>>] = names[k]
    BY <1>1, <1>2, <1>5
  <1>8. \A k, l \in 1..size :
          List[k].job = List[l].job /\ List[k].index = List[l].index => k = l
    <2> SUFFICES ASSUME NEW k \in 1..size, NEW l \in 1..size,
                        List[k].job = List[l].job, List[k].index = List[l].index
                 PROVE  k = l
      OBVIOUS
    <2>1. <<List[k].job, List[k].index>> = <<List[l].job, List[l].index>>
      OBVIOUS
    <2>2. names[k] = names[l]
      BY <1>7, <2>1
    <2> QED BY <1>2, <2>2
  <1>9. \A n \in Described : \E k \in 1..size : List[k] = Mark(schedules[n])
    BY <1>2, <1>4
  <1>10. \A k \in 1..size : \E n \in Described : List[k] = Mark(schedules[n])
    BY <1>2, <1>4
  <1> QED BY <1>2, <1>4, <1>6, <1>8, <1>9, <1>10

LEMMA MarksAreListed ==
  ASSUME SchedulesOK, NEW x
  PROVE  OwnedMarks(x) =
           {List[k] : k \in {l \in DOMAIN List : AppOf[List[l].job] = x}}
  <1>1. ASSUME NEW n \in Described, AppOf[schedules[n].job] = x
        PROVE  \E k \in DOMAIN List :
                 AppOf[List[k].job] = x /\ Mark(schedules[n]) = List[k]
    <2>1. PICK k \in DOMAIN List : List[k] = Mark(schedules[n])
      BY ListIs
    <2> QED BY <1>1, <2>1 DEF Mark
  <1>2. ASSUME NEW k \in DOMAIN List, AppOf[List[k].job] = x
        PROVE  \E n \in Described :
                 AppOf[schedules[n].job] = x /\ Mark(schedules[n]) = List[k]
    <2>1. PICK n \in Described : List[k] = Mark(schedules[n])
      BY ListIs
    <2> QED BY <1>2, <2>1 DEF Mark
  <1>3. OwnedMarks(x) =
          {Mark(schedules[n]) :
             n \in {k \in Described : AppOf[schedules[k].job] = x}}
    BY DEF OwnedMarks, Described
  <1> QED BY <1>1, <1>2, <1>3

LEMMA WantedMarkIs ==
  ASSUME NEW m \in Manifest, NEW e
  PROVE  e \in WantedMarks(m) <=>
           \E j \in DOMAIN m.jobs : \E n \in 1..Len(Schedules[m.jobs[j]]) :
             e = [job |-> j, index |-> n - 1, hash |-> Hash(m.jobs[j], n - 1)]
  <1> DEFINE mark(j, n) ==
        [job |-> j, index |-> n - 1, hash |-> Hash(m.jobs[j], n - 1)]
             size(j) == Len(Schedules[m.jobs[j]])
             marks(j) == {Mark(s) : s \in Built(j, m.jobs[j])}
  <1>1. ASSUME NEW j \in DOMAIN m.jobs
        PROVE  e \in marks(j) <=> \E n \in 1..size(j) : e = mark(j, n)
    <2>1. DOMAIN Schedules[m.jobs[j]] = 1..size(j)
      BY CommandAssumption, ReconcileAssumption
    <2>2. Built(j, m.jobs[j]) = {Build(j, m.jobs[j], n - 1) : n \in 1..size(j)}
      BY <2>1 DEF Built
    <2>3. \A n \in 1..size(j) : Mark(Build(j, m.jobs[j], n - 1)) = mark(j, n)
      BY DEF Mark, Build
    <2> HIDE DEF size, mark
    <2> QED BY <2>2, <2>3
  <1>2. WantedMarks(m) = UNION {marks(j) : j \in DOMAIN m.jobs}
    BY DEF WantedMarks
  <1> HIDE DEF size, mark, marks
  <1>3. e \in WantedMarks(m) <=> \E j \in DOMAIN m.jobs : e \in marks(j)
    BY <1>2
  <1>4. e \in WantedMarks(m) <=>
          \E j \in DOMAIN m.jobs : \E n \in 1..size(j) : e = mark(j, n)
    BY <1>1, <1>3
  <1> QED BY <1>4 DEF size, mark

\* The plan for a manifest is empty exactly when EventBridge has the described
\* schedules that it asks for.
LEMMA ExactPlan ==
  ASSUME SchedulesOK, NEW m \in Manifest
  PROVE  IsNoop(Compute(m, List)) <=> OwnedMarks(m.app) = WantedMarks(m)
  <1> DEFINE size(j) == Len(Schedules[m.jobs[j]])
             mark(j, n) ==
               [job |-> j, index |-> n - 1, hash |-> Hash(m.jobs[j], n - 1)]
             owned == OwnedMarks(m.app)
             wanted == WantedMarks(m)
  <1>1. IsListing(List) /\ IsOnce(List)
    BY ListIs DEF IsOnce
  <1>2. \A k \in DOMAIN List :
          List[k] = [job |-> List[k].job, index |-> List[k].index,
                     hash |-> List[k].hash]
    <2> TAKE k \in DOMAIN List
    <2>1. PICK n \in Described : List[k] = Mark(schedules[n])
      BY ListIs
    <2> QED BY <2>1 DEF Mark
  <1>3. \A e : e \in owned <=> \E k \in DOMAIN List :
                                AppOf[List[k].job] = m.app /\ e = List[k]
    BY MarksAreListed
  <1>4. \A e : e \in wanted <=>
                 \E j \in DOMAIN m.jobs : \E n \in 1..size(j) : e = mark(j, n)
    BY WantedMarkIs
  <1>5. \A j \in DOMAIN m.jobs :
          AppOf[j] = m.app /\ size(j) \in Nat /\ size(j) > 0
    BY CommandAssumption, ReconcileAssumption
  <1>6. \A j, n : /\ mark(j, n).job = j /\ mark(j, n).index = n - 1
                  /\ mark(j, n).hash = Hash(m.jobs[j], n - 1)
    OBVIOUS
  <1>7. \A k \in DOMAIN List : List[k].index \in Nat
    BY <1>1 DEF IsListing
  <1> HIDE DEF size, mark, owned, wanted
  <1>8. AsAsked(m, List) <=>
          /\ \A j \in DOMAIN m.jobs : \A n \in 1..size(j) :
               \E k \in DOMAIN List :
                 /\ List[k].job = j /\ List[k].index = n - 1
                 /\ List[k].hash = Hash(m.jobs[j], n - 1)
          /\ \A k \in DOMAIN List :
               AppOf[List[k].job] = m.app =>
                 List[k].job \in DOMAIN m.jobs /\ List[k].index < size(List[k].job)
    BY DEF AsAsked, size
  <1>9. ASSUME AsAsked(m, List) PROVE owned = wanted
    <2>1. ASSUME NEW j \in DOMAIN m.jobs, NEW n \in 1..size(j)
          PROVE  mark(j, n) \in owned
      <3>1. PICK k \in DOMAIN List :
              /\ List[k].job = j /\ List[k].index = n - 1
              /\ List[k].hash = Hash(m.jobs[j], n - 1)
        BY <1>8, <1>9
      <3>2. mark(j, n) = List[k]
        BY <1>2, <3>1 DEF mark
      <3> QED BY <1>3, <1>5, <3>1, <3>2
    <2>2. ASSUME NEW k \in DOMAIN List, AppOf[List[k].job] = m.app
          PROVE  List[k] \in wanted
      <3> DEFINE j == List[k].job
                 n == List[k].index + 1
      <3>1. j \in DOMAIN m.jobs /\ List[k].index < size(j)
        BY <1>8, <1>9, <2>2
      <3>2. n \in 1..size(j) /\ n - 1 = List[k].index
        BY <1>5, <1>7, <3>1
      <3>3. PICK l \in DOMAIN List :
              /\ List[l].job = j /\ List[l].index = n - 1
              /\ List[l].hash = Hash(m.jobs[j], n - 1)
        BY <1>8, <1>9, <3>1, <3>2
      <3>4. l = k
        BY <1>1, <3>2, <3>3 DEF IsOnce
      <3>5. List[k] = mark(j, n)
        BY <1>2, <3>3, <3>4 DEF mark
      <3> QED BY <1>4, <3>1, <3>2, <3>5
    <2>3. \A e : e \in owned <=> e \in wanted
      BY <1>3, <1>4, <2>1, <2>2
    <2> QED BY <2>3
  <1>10. ASSUME owned = wanted PROVE AsAsked(m, List)
    <2>1. ASSUME NEW j \in DOMAIN m.jobs, NEW n \in 1..size(j)
          PROVE  \E k \in DOMAIN List :
                   /\ List[k].job = j /\ List[k].index = n - 1
                   /\ List[k].hash = Hash(m.jobs[j], n - 1)
      <3>1. PICK k \in DOMAIN List : List[k] = mark(j, n)
        BY <1>3, <1>4, <1>10
      <3> QED BY <1>6, <3>1
    <2>2. ASSUME NEW k \in DOMAIN List, AppOf[List[k].job] = m.app
          PROVE  List[k].job \in DOMAIN m.jobs /\ List[k].index < size(List[k].job)
      <3>1. List[k] \in wanted
        BY <1>3, <1>10, <2>2
      <3>2. PICK j \in DOMAIN m.jobs : \E n \in 1..size(j) : List[k] = mark(j, n)
        BY <1>4, <3>1
      <3> PICK n \in 1..size(j) : List[k] = mark(j, n)
        BY <3>2
      <3>3. List[k].job = j /\ List[k].index = n - 1
        BY <1>6
      <3>4. n - 1 < size(j)
        BY <1>5
      <3> QED BY <3>3, <3>4
    <2> QED BY <1>8, <2>1, <2>2
  <1> QED BY <1>1, <1>9, <1>10, NoopIs DEF owned, wanted

\* The expression is the one of the object that the hash is of.
IsGenuine(s) == s.cron = Translate[Schedules[s.hash[1]][s.hash[2] + 1]]

AllGenuine == \A n \in Name : IsDescribed(n) => IsGenuine(schedules[n])

LEMMA BuiltIsGenuine ==
  ASSUME NEW j, NEW v, NEW idx
  PROVE  IsGenuine(Build(j, v, idx))
  BY DEF IsGenuine, Build, Hash

\* Where every expression is genuine the descriptions tell the schedules.
LEMMA MarksTell ==
  ASSUME SchedulesOK, AllGenuine, NEW m \in Manifest
  PROVE  OwnedMarks(m.app) = WantedMarks(m) <=> Owned(m.app) = Wanted(m)
  <1> DEFINE whole(s) == [job |-> s.job, index |-> s.index, hash |-> s.hash,
                          cron |-> s.cron]
             owned == Owned(m.app)
             wanted == Wanted(m)
  <1>1. \A s \in owned : IsGenuine(s) /\ s = whole(s)
    <2>1. \A s \in Schedule : s = whole(s)
      BY DEF Schedule
    <2> HIDE DEF whole
    <2>2. \A n \in Name : IsDescribed(n) => schedules[n] \in Schedule
      BY DEF SchedulesOK, IsDescribed
    <2> QED BY <2>1, <2>2 DEF Owned, AllGenuine
  <1>2. \A s \in wanted : IsGenuine(s) /\ s = whole(s)
    <2>1. \A j, v, idx : /\ IsGenuine(Build(j, v, idx))
                         /\ Build(j, v, idx) = whole(Build(j, v, idx))
      BY BuiltIsGenuine DEF Build
    <2> HIDE DEF whole
    <2> QED BY <2>1 DEF Wanted, Built
  <1>3. \A s, t : /\ IsGenuine(s) /\ s = whole(s) /\ IsGenuine(t) /\ t = whole(t)
                  /\ Mark(s) = Mark(t)
                 => s = t
    <2> SUFFICES ASSUME NEW s, NEW t, IsGenuine(s), s = whole(s),
                        IsGenuine(t), t = whole(t), Mark(s) = Mark(t)
                 PROVE  s = t
      OBVIOUS
    <2> HIDE DEF whole
    <2>1. s.job = t.job /\ s.index = t.index /\ s.hash = t.hash
      BY DEF Mark
    <2>2. s.cron = t.cron
      BY <2>1 DEF IsGenuine
    <2> QED BY <2>1, <2>2 DEF whole
  <1>4. OwnedMarks(m.app) = {Mark(s) : s \in owned}
    BY DEF OwnedMarks, Owned
  <1>5. WantedMarks(m) = {Mark(s) : s \in wanted}
    BY DEF WantedMarks, Wanted
  <1> HIDE DEF owned, wanted, whole
  <1>6. {Mark(s) : s \in owned} = {Mark(s) : s \in wanted} => owned = wanted
    <2> SUFFICES ASSUME {Mark(s) : s \in owned} = {Mark(s) : s \in wanted}
                 PROVE  \A s : s \in owned <=> s \in wanted
      OBVIOUS
    <2>1. \A s \in owned : \E t \in wanted : Mark(s) = Mark(t)
      OBVIOUS
    <2>2. \A t \in wanted : \E s \in owned : Mark(s) = Mark(t)
      OBVIOUS
    <2> QED BY <1>1, <1>2, <1>3, <2>1, <2>2
  <1> QED BY <1>4, <1>5, <1>6 DEF owned, wanted

-----------------------------------------------------------------------------
(* The inductive invariant of AwsApply.                                    *)

Call ==
  {Refusal} \cup [do : {"delete"}, name : Name]
            \cup [do : {"create"}, name : Name, schedule : Schedule]

\* No call that is still to come deletes what is not cronix's, and each create
\* gives the schedule its name and its expression.
SafeCall ==
  {call \in Call :
     /\ call.do = "delete" => schedules[call.name] # Undescribed
     /\ call.do = "create" =>
          /\ call.name = ScheduleName[<<call.schedule.job, call.schedule.index>>]
          /\ IsGenuine(call.schedule)}

\* Until somebody edits a schedule, its expression is the one it was made with.
AwsInv ==
  /\ edits = 0 => AllGenuine
  /\ SchedulesOK
  /\ CommandInv
  /\ edits \in 0..MaxEdits
  /\ calls \in [Command -> Seq(SafeCall)]
  /\ \A c \in Command :
       calls[c] # <<>> => pc[c] \in {"delete", "prune", "update", "create"}

LEMMA AwsInit == Init => AwsInv
  <1> SUFFICES ASSUME Init PROVE AwsInv
    OBVIOUS
  <1>1. CommandInv
    BY CommandInitOK DEF Init, CallsInit
  <1>2. SchedulesOK /\ AllGenuine
    BY DEF Init, SchedulesOK, IsDescribed, AllGenuine
  <1>3. edits \in 0..MaxEdits
    BY CallsAssumption DEF Init, CallsInit
  <1>4. <<>> \in Seq(SafeCall) /\ \A c \in Command : calls[c] = <<>>
    BY EmptySeq DEF Init, CallsInit
  <1>5. calls \in [Command -> Seq(SafeCall)]
    BY <1>4 DEF Init, CallsInit
  <1> QED BY <1>1, <1>2, <1>3, <1>4, <1>5 DEF AwsInv

\* The calls that an operation starts with.
LEMMA DeletesAreSafe ==
  ASSUME SchedulesOK, NEW places \in SUBSET DOMAIN List
  PROVE  DeleteEach(places) \in Seq(SafeCall)
  <1> DEFINE found == InOrder(places)
             size == Cardinality(places)
             del(n) == [do |-> "delete", name |-> n]
             wanted(k) == ScheduleName[<<List[k].job, List[k].index>>]
  <1>1. places \in SUBSET Nat /\ IsFiniteSet(places)
    <2>1. IsListing(List)
      BY ListIs
    <2> QED BY <2>1, FS_Subset DEF IsListing
  <1>2. /\ size \in Nat /\ DOMAIN found = 1..size
        /\ \A k \in 1..size : found[k] \in places
    BY <1>1, InOrderLists
  <1>3. DeleteEach(places) = [k \in DOMAIN found |-> del(wanted(found[k]))]
    BY DEF DeleteEach
  <1>4. ASSUME NEW k \in DOMAIN List
        PROVE  wanted(k) \in Name /\ schedules[wanted(k)] # Undescribed
    <2>1. PICK n \in Described : List[k] = Mark(schedules[n])
      BY ListIs
    <2>2. List[k].job = schedules[n].job /\ List[k].index = schedules[n].index
      BY <2>1 DEF Mark
    <2>3. wanted(k) = n /\ n \in Name
      BY <2>2, DescribedIs
    <2> QED BY <2>3 DEF Described, IsDescribed
  <1>5. ASSUME NEW n \in Name, schedules[n] # Undescribed
        PROVE  del(n) \in SafeCall
    BY <1>5 DEF SafeCall, Call
  <1> HIDE DEF found, size, del, wanted
  <1>6. \A k \in 1..size : del(wanted(found[k])) \in SafeCall
    BY <1>2, <1>4, <1>5
  <1>7. DeleteEach(places) \in [1..size -> SafeCall]
    BY <1>2, <1>3, <1>6
  <1> QED BY <1>2, <1>7, SeqDef

LEMMA CreatesAreSafe ==
  ASSUME NEW j \in Job, NEW v \in Version
  PROVE  CreateCalls(j, v) \in Seq(SafeCall)
  <1> DEFINE size == Len(Schedules[v])
             create(n) == [do |-> "create", name |-> ScheduleName[<<j, n - 1>>],
                           schedule |-> Build(j, v, n - 1)]
  <1>1. size \in Nat /\ DOMAIN Schedules[v] = 1..size
    BY ReconcileAssumption
  <1>2. ASSUME NEW n \in 1..size
        PROVE  create(n) \in SafeCall
    <2>1. n - 1 \in Nat /\ (n - 1) + 1 = n
      BY <1>1
    <2>2. /\ Schedules[v][n] \in DOMAIN Translate
          /\ <<j, n - 1>> \in DOMAIN ScheduleName
          /\ Range(ScheduleName) \subseteq Name
      BY <1>1, AwsAssumption
    <2>3. Translate[Schedules[v][n]] \in Range(Translate)
      BY <2>2 DEF Range
    <2>4. ScheduleName[<<j, n - 1>>] \in Name
      BY <2>2 DEF Range
    <2> DEFINE s == Build(j, v, n - 1)
    <2>5. /\ s = [job |-> j, index |-> n - 1, hash |-> Hash(v, n - 1),
                  cron |-> Translate[Schedules[v][n]]]
          /\ Hash(v, n - 1) \in Version \X Nat
      BY <2>1 DEF Build, Hash
    <2>6. s \in Schedule /\ s.job = j /\ s.index = n - 1
      BY <2>1, <2>3, <2>5 DEF Schedule
    <2>7. IsGenuine(s)
      BY BuiltIsGenuine
    <2> HIDE DEF s
    <2> QED BY <2>4, <2>6, <2>7 DEF SafeCall, Call, s
  <1>3. Refusal \in SafeCall
    BY DEF Refusal, SafeCall, Call
  <1>4. CreateCalls(j, v) =
          [n \in 1..size |-> IF Translate[Schedules[v][n]] = None THEN Refusal
                             ELSE create(n)]
    BY <1>1 DEF CreateCalls
  <1> HIDE DEF size, create
  <1>5. CreateCalls(j, v) \in [1..size -> SafeCall]
    BY <1>2, <1>3, <1>4
  <1> QED BY <1>1, <1>5, SeqDef

LEMMA OperationsAreSafe ==
  ASSUME SchedulesOK, NEW j \in Job
  PROVE  /\ DeleteCalls(j) \in Seq(SafeCall)
         /\ \A v \in Version : /\ CreateCalls(j, v) \in Seq(SafeCall)
                               /\ UpdateCalls(j, v) \in Seq(SafeCall)
  <1>1. EntriesOf(List, j) \in SUBSET DOMAIN List
    BY DEF EntriesOf
  <1>2. DeleteCalls(j) \in Seq(SafeCall)
    BY <1>1, DeletesAreSafe DEF DeleteCalls
  <1>3. ASSUME NEW v \in Version
        PROVE  /\ CreateCalls(j, v) \in Seq(SafeCall)
               /\ UpdateCalls(j, v) \in Seq(SafeCall)
    <2>1. CreateCalls(j, v) \in Seq(SafeCall)
      BY CreatesAreSafe
    <2> QED BY <1>2, <2>1, ConcatProperties DEF UpdateCalls
  <1> QED BY <1>2, <1>3

\* An operation begins: the schedules stay as they are.
LEMMA OneJobKeeps ==
  ASSUME AwsInv, NEW c \in Command, OneJob(c)
  PROVE  AwsInv'
  <1>1. PICK j \in Job :
          \/ CallDelete(c, j) /\ Begin(c, DeleteCalls(j))
          \/ CallUpdate(c, j) /\ Begin(c, UpdateCalls(j, want[c].jobs[j]))
          \/ CallCreate(c, j) /\ Begin(c, CreateCalls(j, want[c].jobs[j]))
    BY DEF OneJob, Operation
  <1>2. schedules' = schedules
    BY DEF OneJob
  <1>3. CommandInv'
    BY <1>1, CallKeeps DEF AwsInv
  <1>4. ASSUME CallUpdate(c, j) \/ CallCreate(c, j)
        PROVE  want[c].jobs[j] \in Version
    <2>1. /\ pc[c] \in {"update", "create"} /\ todo[c] # {} /\ j = NextJob(c)
      BY <1>4 DEF CallUpdate, CallCreate
    <2>2. want[c] \in Manifest /\ todo[c] \subseteq DOMAIN want[c].jobs
      BY <2>1 DEF AwsInv, CommandInv, ApplyOK, Stopped
    <2>3. j \in DOMAIN want[c].jobs
      BY <2>1, <2>2, NextJobIs DEF AwsInv
    <2> QED BY <2>2, <2>3, CommandAssumption
  <1>5. PICK ops \in Seq(SafeCall) : Begin(c, ops)
    BY <1>1, <1>4, OperationsAreSafe DEF AwsInv
  <1>6. calls' = [calls EXCEPT ![c] = ops] /\ edits' = edits
    BY <1>5 DEF Begin
  <1>7. pc' = pc /\ pc[c] \in {"delete", "prune", "update", "create"}
    BY <1>1 DEF CallDelete, CallUpdate, CallCreate
  <1>8. SafeCall' = SafeCall /\ SchedulesOK' /\ (edits' = 0 => AllGenuine')
    BY <1>2, <1>6 DEF SafeCall, AwsInv, SchedulesOK, IsDescribed, AllGenuine
  <1> QED BY <1>3, <1>6, <1>7, <1>8 DEF AwsInv

\* A step that leaves the schedules and empties calls at most.
LEMMA QuietKeeps ==
  ASSUME AwsInv, CommandInv', UNCHANGED <<schedules, edits>>,
         NEW c \in Command,
         \A d \in Command \ {c} : pc'[d] = pc[d],
         calls' = [calls EXCEPT ![c] = <<>>]
  PROVE  AwsInv'
  <1>1. SafeCall' = SafeCall /\ SchedulesOK' /\ (edits' = 0 => AllGenuine')
    BY DEF SafeCall, AwsInv, SchedulesOK, IsDescribed, AllGenuine
  <1>2. <<>> \in Seq(SafeCall)
    BY EmptySeq
  <1> QED BY <1>1, <1>2 DEF AwsInv

LEMMA OtherKeeps ==
  ASSUME AwsInv, NEW c \in Command, Other(c)
  PROVE  AwsInv'
  <1>1. /\ calls[c] = <<>> /\ calls' = calls /\ edits' = edits
        /\ schedules' = schedules
    BY DEF Other, Between
  <1>2. \/ \E m \in Manifest : Apply(c, m)
        \/ Prune(c, List) \/ ComputePlan(c, List)
        \/ NextPass(c) \/ SpecStep(c)
    BY DEF Other, Between
  <1>3. Listed(List) \subseteq Job
    <2>1. ASSUME NEW k \in DOMAIN List PROVE List[k].job \in Job
      <3>1. PICK n \in Described : List[k] = Mark(schedules[n])
        BY ListIs DEF AwsInv
      <3>2. List[k].job = schedules[n].job
        BY <3>1 DEF Mark
      <3> QED BY <3>2, DescribedIs DEF AwsInv
    <2> QED BY <2>1 DEF Listed
  <1>4. CommandInv'
    BY <1>2, <1>3, ApplyKeeps, PruneKeeps, ComputePlanKeeps, NextPassKeeps,
       SpecStepKeeps DEF AwsInv
  <1>5. \A d \in Command \ {c} : pc'[d] = pc[d]
    BY <1>2 DEF Apply, Prune, ComputePlan, NextPass, SpecStep, TruncateSpec,
                FillSpec, RemoveOrphan, Pass, Goto, AwsInv, CommandInv, CommandTypeOK
  <1>6. calls' = [calls EXCEPT ![c] = <<>>]
    BY <1>1 DEF AwsInv
  <1> QED BY <1>1, <1>4, <1>5, <1>6, QuietKeeps

LEMMA StopsKeeps ==
  ASSUME AwsInv, NEW c \in Command, Stops(c)
  PROVE  AwsInv'
  <1>1. /\ Fail(c) /\ calls' = [calls EXCEPT ![c] = <<>>]
        /\ UNCHANGED <<schedules, edits>>
    BY DEF Stops, Abort
  <1>2. CommandInv'
    BY <1>1, FailKeeps DEF AwsInv
  <1>3. \A d \in Command \ {c} : pc'[d] = pc[d]
    BY <1>1 DEF Fail, Pass, Goto, AwsInv, CommandInv, CommandTypeOK
  <1> QED BY <1>1, <1>2, <1>3, QuietKeeps

\* A call is carried out.
LEMMA RunCallIs ==
  ASSUME AwsInv, NEW c \in Command, RunCall(c)
  PROVE  /\ SchedulesOK' /\ (AllGenuine => AllGenuine')
         /\ \A n \in Name : schedules[n] = Undescribed <=> schedules'[n] = Undescribed
  <1> DEFINE call == Head(calls[c])
  <1>1. call \in SafeCall
    <2>1. calls[c] \in Seq(SafeCall) /\ calls[c] # <<>>
      BY DEF AwsInv, RunCall, NextCall
    <2> QED BY <2>1, HeadTailProperties
  <1> HIDE DEF call
  <1>2. DeleteSchedule(call) \/ CreateSchedule(call)
    BY DEF RunCall, call
  <1>3. CASE DeleteSchedule(call)
    <2>1. /\ call.do = "delete" /\ call.name \in Name
          /\ schedules[call.name] # Undescribed
      BY <1>1, <1>3 DEF DeleteSchedule, SafeCall, Call, Refusal
    <2>2. schedules' = [schedules EXCEPT ![call.name] = None]
      BY <1>3 DEF DeleteSchedule
    <2>3. Undescribed # None
      BY AwsAssumption
    <2> QED BY <2>1, <2>2, <2>3 DEF AwsInv, SchedulesOK, IsDescribed, AllGenuine
  <1>4. CASE CreateSchedule(call)
    <2> DEFINE s == call.schedule
               n == call.name
    <2>1. /\ n \in Name /\ s \in Schedule
          /\ n = ScheduleName[<<s.job, s.index>>] /\ IsGenuine(s)
      BY <1>1, <1>4 DEF CreateSchedule, SafeCall, Call, Refusal
    <2>2. schedules' = [schedules EXCEPT ![n] = s] /\ schedules[n] = None
      BY <1>4 DEF CreateSchedule
    <2>3. Undescribed # None /\ Undescribed \notin Schedule
      BY AwsAssumption
    <2> HIDE DEF s, n
    <2> QED BY <2>1, <2>2, <2>3 DEF AwsInv, SchedulesOK, IsDescribed, AllGenuine
  <1> QED BY <1>2, <1>3, <1>4

LEMMA RunCallKeeps ==
  ASSUME AwsInv, NEW c \in Command, RunCall(c)
  PROVE  AwsInv'
  <1>1. /\ calls[c] # <<>> /\ calls' = [calls EXCEPT ![c] = <<>> \o Tail(@)]
        /\ edits' = edits /\ UNCHANGED commandVars
    BY DEF RunCall, NextCall
  <1>2. CommandInv' /\ pc' = pc
    BY <1>1, IdleKeeps DEF AwsInv, commandVars
  <1>3. SafeCall' = SafeCall
    <2>1. \A call \in Call : call.do = "delete" => call.name \in Name
      BY DEF Call, Refusal
    <2> QED BY <2>1, RunCallIs DEF SafeCall
  <1>4. <<>> \o Tail(calls[c]) \in Seq(SafeCall)
    <2>1. calls[c] \in Seq(SafeCall)
      BY DEF AwsInv
    <2>2. Tail(calls[c]) \in Seq(SafeCall)
      BY <1>1, <2>1, HeadTailProperties
    <2> QED BY <2>2, ConcatEmptySeq
  <1>5. calls' \in [Command -> Seq(SafeCall)]
    BY <1>1, <1>4 DEF AwsInv
  <1>6. \A d \in Command : calls'[d] # <<>> => calls[d] # <<>>
    BY <1>1 DEF AwsInv
  <1> QED BY <1>1, <1>2, <1>3, <1>5, <1>6, RunCallIs DEF AwsInv

LEMMA EditByHandKeeps ==
  ASSUME AwsInv, EditByHand
  PROVE  AwsInv'
  <1>1. /\ edits < MaxEdits /\ edits' = edits + 1
        /\ \A c \in Command : pc[c] \in Stopped
        /\ calls' = calls /\ UNCHANGED commandVars
    BY DEF EditByHand, ByHand
  <1>2. CommandInv' /\ pc' = pc
    BY <1>1, IdleKeeps DEF AwsInv, commandVars
  <1>3. edits' \in 0..MaxEdits /\ edits' # 0
    BY <1>1, CallsAssumption DEF AwsInv
  <1>4. \A c \in Command : calls[c] = <<>>
    BY <1>1 DEF AwsInv, Stopped
  <1>5. calls' \in [Command -> Seq(SafeCall')]
    BY <1>1, <1>4, EmptySeq DEF AwsInv
  <1>6. SchedulesOK'
    <2>1. PICK n \in Name :
            /\ IsDescribed(n)
            /\ \/ \E cron \in Range(Translate) \ {None} :
                    schedules' = [schedules EXCEPT ![n].cron = cron]
               \/ schedules' = [schedules EXCEPT ![n] = Undescribed]
               \/ schedules' = [schedules EXCEPT ![n] = None]
      BY DEF EditByHand
    <2>2. CASE \E cron \in Range(Translate) :
                 schedules' = [schedules EXCEPT ![n].cron = cron]
      <3>1. PICK cron \in Range(Translate) :
              schedules' = [schedules EXCEPT ![n] = [schedules[n] EXCEPT !.cron = cron]]
        BY <2>2
      <3> DEFINE s == [schedules[n] EXCEPT !.cron = cron]
      <3>2. schedules[n] \in Schedule
        BY <2>1 DEF AwsInv, SchedulesOK, IsDescribed
      <3>3. s \in Schedule /\ s.job = schedules[n].job /\ s.index = schedules[n].index
        BY <3>2 DEF Schedule
      <3> HIDE DEF s
      <3>4. schedules' = [schedules EXCEPT ![n] = s]
        BY <3>1 DEF s
      <3>5. ScheduleName[<<s.job, s.index>>] = n
        BY <2>1, <3>3 DEF AwsInv, SchedulesOK
      <3> QED BY <3>3, <3>4, <3>5 DEF AwsInv, SchedulesOK, IsDescribed
    <2>3. CASE schedules' = [schedules EXCEPT ![n] = Undescribed]
      BY <2>3 DEF AwsInv, SchedulesOK, IsDescribed
    <2>4. CASE schedules' = [schedules EXCEPT ![n] = None]
      BY <2>4 DEF AwsInv, SchedulesOK, IsDescribed
    <2> QED BY <2>1, <2>2, <2>3, <2>4
  <1> QED BY <1>1, <1>2, <1>3, <1>4, <1>5, <1>6 DEF AwsInv

LEMMA StepKeeps == AwsInv /\ [Next]_vars => AwsInv'
  <1> SUFFICES ASSUME AwsInv, [Next]_vars PROVE AwsInv'
    OBVIOUS
  <1>1. ASSUME NEW c \in Command, OneJob(c) PROVE AwsInv'
    BY <1>1, OneJobKeeps
  <1>2. ASSUME NEW c \in Command, RunCall(c) PROVE AwsInv'
    BY <1>2, RunCallKeeps
  <1>3. ASSUME NEW c \in Command, Other(c) PROVE AwsInv'
    BY <1>3, OtherKeeps
  <1>4. ASSUME NEW c \in Command, Stops(c) PROVE AwsInv'
    BY <1>4, StopsKeeps
  <1>5. CASE EditByHand
    BY <1>5, EditByHandKeeps
  <1>6. CASE UNCHANGED vars
    <2>1. CommandInv'
      BY <1>6, IdleKeeps DEF vars, callVars, commandVars, AwsInv
    <2>2. SafeCall' = SafeCall /\ SchedulesOK' /\ (edits' = 0 => AllGenuine')
      BY <1>6 DEF vars, callVars, SafeCall, AwsInv, SchedulesOK, IsDescribed, AllGenuine
    <2> QED BY <1>6, <2>1, <2>2 DEF vars, callVars, commandVars, AwsInv
  <1> QED BY <1>1, <1>2, <1>3, <1>4, <1>5, <1>6 DEF Next

LEMMA AwsInvariant == Spec => []AwsInv
  BY AwsInit, StepKeeps, PTL DEF Spec

-----------------------------------------------------------------------------
\* Every schedule that is described has the name that its description says,
\* whatever fails or is edited (buildDescription, aws.go); an operation that
\* has begun belongs to a command that is in a pass.
THEOREM AwsTypeCorrect == Spec => []TypeOK
  <1>1. AwsInv => TypeOK
    BY DEF AwsInv, SchedulesOK, TypeOK, CallsTypeOK, CommandInv
  <1> QED BY <1>1, AwsInvariant, PTL

\* The plan for a manifest is empty exactly when the descriptions are the ones
\* it asks for, however many commands run at once and wherever they stop
\* (reconcile.Compute over aws.List); until somebody edits a schedule by hand,
\* exactly when the schedules are, expressions included.
THEOREM AwsPlanIsExact == Spec => []PlanIsExact
  <1>1. ASSUME AwsInv, NEW m \in Manifest
        PROVE  LET noop == IsNoop(Compute(m, List))
               IN  /\ noop <=> OwnedMarks(m.app) = WantedMarks(m)
                   /\ edits = 0 => (noop <=> Owned(m.app) = Wanted(m))
    <2>1. IsNoop(Compute(m, List)) <=> OwnedMarks(m.app) = WantedMarks(m)
      BY <1>1, ExactPlan DEF AwsInv
    <2>2. edits = 0 =>
            (OwnedMarks(m.app) = WantedMarks(m) <=> Owned(m.app) = Wanted(m))
      BY <1>1, MarksTell DEF AwsInv
    <2> QED BY <2>1, <2>2
  <1>2. AwsInv => PlanIsExact
    BY <1>1 DEF PlanIsExact
  <1> QED BY <1>2, AwsInvariant, PTL

\* No command touches a schedule that is not cronix's, not even with a delete
\* that it has planned before (backends/backend.go:44).
THEOREM ForeignIsKept == Spec => ForeignKept
  <1> DEFINE kept == \A n \in Name :
                       schedules[n] = Undescribed => schedules'[n] = Undescribed
  <1>1. AwsInv /\ [Next]_vars => [kept]_vars
    <2> SUFFICES ASSUME AwsInv, Next PROVE kept
      OBVIOUS
    <2>1. ASSUME NEW c \in Command, RunCall(c) PROVE kept
      BY <2>1, RunCallIs
    <2>2. CASE EditByHand
      BY <2>2 DEF EditByHand, IsDescribed, AwsInv, SchedulesOK
    <2>3. ASSUME NEW c \in Command, OneJob(c) \/ Other(c) \/ Stops(c) PROVE kept
      BY <2>3 DEF OneJob, Other, Stops
    <2> QED BY <2>1, <2>2, <2>3 DEF Next
  <1> QED BY <1>1, AwsInvariant, PTL DEF Spec, ForeignKept
-----------------------------------------------------------------------------
(* An apply converges.                                                     *)

\* The jobs left in the pass with this label, if c is in it.
Left(c, label) == IF pc[c] = label THEN todo[c] ELSE {}

\* The jobs whose create or update has begun.
Created(c) ==
  IF pc[c] \in {"delete", "update"} THEN {} ELSE plan[c].creates \ Left(c, "create")
Updated(c) ==
  IF pc[c] = "delete" THEN {} ELSE plan[c].updates \ Left(c, "update")

DeleteOf(n) == [do |-> "delete", name |-> n]
CreateOf(s) ==
  [do |-> "create", name |-> ScheduleName[<<s.job, s.index>>], schedule |-> s]

Has(n, j) == IsDescribed(n) /\ schedules[n].job = j

NameOf(j, i) == ScheduleName[<<j, i - 1>>]

\* The descriptions of the schedules of j are the ones that v asks for.
Holds(j, v) ==
  /\ \A n \in Name : Has(n, j) =>
       /\ schedules[n].index < Len(Schedules[v])
       /\ schedules[n].hash = Hash(v, schedules[n].index)
  /\ \A i \in 1..Len(Schedules[v]) :
       \E n \in Name : Has(n, j) /\ schedules[n].index = i - 1

\* Once the calls that c has left are made, the schedules of j are the ones
\* that v asks for, or c has failed.
Settled(c, j, v) ==
  /\ \A i \in 1..Len(Schedules[v]) :
       \/ Refusal \in Range(calls[c])
       \/ CreateOf(Build(j, v, i - 1)) \in Range(calls[c])
       \/ /\ schedules[NameOf(j, i)] = Build(j, v, i - 1)
          /\ DeleteOf(NameOf(j, i)) \notin Range(calls[c])
  /\ \A n \in Name : Has(n, j) =>
       \/ DeleteOf(n) \in Range(calls[c])
       \/ \E i \in 1..Len(Schedules[v]) : schedules[n] = Build(j, v, i - 1)

PlanOK(c) ==
  LET p == plan[c]
  IN  /\ p.creates \cup p.updates \cup p.skips = DOMAIN want[c].jobs
      /\ p.creates \cap p.updates = {}
      /\ p.skips \cap (p.creates \cup p.updates) = {}
      /\ p.deletes \cap DOMAIN want[c].jobs = {}
      /\ Left(c, "delete") \subseteq p.deletes
      /\ Left(c, "update") \subseteq p.updates
      /\ Left(c, "create") \subseteq p.creates

\* An operation deletes before it creates.
DeletesFirst(q) ==
  \A i, k \in DOMAIN q : i < k /\ q[i].do = "create" => q[k].do # "delete"

CallsOK(c) ==
  /\ DeletesFirst(calls[c])
  /\ \A n \in Name :
       DeleteOf(n) \in Range(calls[c]) /\ IsDescribed(n) =>
         schedules[n].job \in plan[c].deletes \cup plan[c].updates
  /\ \A call \in Range(calls[c]) :
       call.do = "create" =>
         \E j \in Created(c) \cup Updated(c) :
           \E i \in 1..Len(Schedules[want[c].jobs[j]]) :
             call = CreateOf(Build(j, want[c].jobs[j], i - 1))

Progress(c) ==
  LET m == want[c]
      p == plan[c]
  IN  /\ \A n \in Name : IsDescribed(n) /\ AppOf[schedules[n].job] = m.app =>
           schedules[n].job \in DOMAIN m.jobs \cup p.deletes
      /\ \A j \in p.skips : Holds(j, m.jobs[j])
      /\ \A j \in p.deletes \ Left(c, "delete") : \A n \in Name :
           Has(n, j) => DeleteOf(n) \in Range(calls[c])
      /\ \A j \in p.creates \ Created(c) : \A n \in Name : ~Has(n, j)
      /\ \A j \in Created(c) \cup Updated(c) : Settled(c, j, m.jobs[j])

Planned(c) ==
  pc[c] \in {"delete", "update", "create", "specs", "fill", "orphans"}

ConvergeInv ==
  \A c \in Command : Planned(c) => PlanOK(c) /\ CallsOK(c) /\ Progress(c)
-----------------------------------------------------------------------------
(* The order of the calls.                                                 *)

LEMMA DeletesFirstOfTail ==
  ASSUME NEW S, NEW q \in Seq(S), q # <<>>, DeletesFirst(q)
  PROVE  /\ DeletesFirst(Tail(q))
         /\ Head(q).do = "create" => \A x \in Range(q) : x.do # "delete"
  <1>1. /\ Len(q) \in Nat /\ Len(q) > 0 /\ DOMAIN q = 1..Len(q)
        /\ Head(q) = q[1] /\ DOMAIN Tail(q) = 1..Len(q) - 1
        /\ \A i \in 1..Len(q) - 1 : Tail(q)[i] = q[i + 1]
    OBVIOUS
  <1>2. ASSUME NEW i \in DOMAIN Tail(q), NEW k \in DOMAIN Tail(q), i < k,
               Tail(q)[i].do = "create"
        PROVE  Tail(q)[k].do # "delete"
    <2>1. i + 1 \in DOMAIN q /\ k + 1 \in DOMAIN q /\ i + 1 < k + 1
      BY <1>1, <1>2
    <2> QED BY <1>1, <1>2, <2>1 DEF DeletesFirst
  <1>3. ASSUME Head(q).do = "create", NEW x \in Range(q) PROVE x.do # "delete"
    <2>1. PICK i \in DOMAIN q : x = q[i]
      BY DEF Range
    <2>2. 1 \in DOMAIN q /\ (i = 1 \/ 1 < i)
      BY <1>1
    <2>3. CASE i = 1
      BY <1>1, <1>3, <2>1, <2>3
    <2>4. CASE 1 < i
      BY <1>1, <1>3, <2>1, <2>2, <2>4 DEF DeletesFirst
    <2> QED BY <2>2, <2>3, <2>4
  <1> QED BY <1>2, <1>3 DEF DeletesFirst

LEMMA DeletesThenCreates ==
  ASSUME NEW S, NEW p \in Seq(S), NEW q \in Seq(S),
         \A x \in Range(p) : x.do # "create",
         \A x \in Range(q) : x.do # "delete"
  PROVE  DeletesFirst(p \o q)
  <1>1. /\ Len(p) \in Nat /\ Len(q) \in Nat
        /\ DOMAIN p = 1..Len(p) /\ DOMAIN q = 1..Len(q)
        /\ DOMAIN (p \o q) = 1..Len(p) + Len(q)
        /\ \A i \in 1..Len(p) + Len(q) :
             (p \o q)[i] = IF i <= Len(p) THEN p[i] ELSE q[i - Len(p)]
    OBVIOUS
  <1> DEFINE r == p \o q
  <1> SUFFICES ASSUME NEW i \in DOMAIN r, NEW k \in DOMAIN r, i < k,
                      r[i].do = "create"
               PROVE  r[k].do # "delete"
    BY DEF DeletesFirst
  <1> HIDE DEF r
  <1>2. ~(i <= Len(p))
    <2> SUFFICES ASSUME i <= Len(p) PROVE FALSE
      OBVIOUS
    <2>1. i \in DOMAIN p /\ r[i] = p[i]
      BY <1>1 DEF r
    <2> QED BY <2>1 DEF Range
  <1>3. ~(k <= Len(p)) /\ k - Len(p) \in DOMAIN q /\ r[k] = q[k - Len(p)]
    BY <1>1, <1>2 DEF r
  <1> QED BY <1>3 DEF Range

LEMMA BuildIs ==
  ASSUME NEW j \in Job, NEW v \in Version, NEW i \in 1..Len(Schedules[v])
  PROVE  /\ Build(j, v, i - 1) \in Schedule
         /\ Build(j, v, i - 1) \notin {None, Undescribed}
         /\ Build(j, v, i - 1).job = j /\ Build(j, v, i - 1).index = i - 1
         /\ Build(j, v, i - 1).hash = Hash(v, i - 1)
         /\ Mark(Build(j, v, i - 1)) =
              [job |-> j, index |-> i - 1, hash |-> Hash(v, i - 1)]
  <1>1. Len(Schedules[v]) \in Nat /\ DOMAIN Schedules[v] = 1..Len(Schedules[v])
    BY ReconcileAssumption
  <1>2. i - 1 \in Nat /\ (i - 1) + 1 = i
    BY <1>1
  <1>3. Translate[Schedules[v][i]] \in Range(Translate)
    BY <1>1, AwsAssumption DEF Range
  <1> DEFINE s == Build(j, v, i - 1)
  <1>4. /\ s = [job |-> j, index |-> i - 1, hash |-> Hash(v, i - 1),
                cron |-> Translate[Schedules[v][i]]]
        /\ Hash(v, i - 1) \in Version \X Nat
    BY <1>2 DEF Build, Hash
  <1>5. s \in Schedule /\ s.job = j /\ s.index = i - 1 /\ s.hash = Hash(v, i - 1)
    BY <1>2, <1>3, <1>4 DEF Schedule
  <1> HIDE DEF s
  <1>6. s \notin {None, Undescribed}
    BY <1>5, AwsAssumption
  <1> QED BY <1>5, <1>6 DEF s, Mark

\* Delete deletes every schedule of the job.
LEMMA DeletesAre ==
  ASSUME SchedulesOK, NEW j, NEW x
  PROVE  x \in Range(DeleteCalls(j)) <=> \E n \in Name : Has(n, j) /\ x = DeleteOf(n)
  <1> DEFINE places == EntriesOf(List, j)
             found == InOrder(places)
             size == Cardinality(places)
             wanted(k) == ScheduleName[<<List[k].job, List[k].index>>]
  <1>1. places \in SUBSET Nat /\ IsFiniteSet(places)
    BY ListIs, AtIsFinite
  <1>2. /\ size \in Nat /\ DOMAIN found = 1..size
        /\ \A k \in 1..size : found[k] \in places
        /\ \A k \in places : \E i \in 1..size : found[i] = k
    BY <1>1, InOrderLists
  <1>3. DeleteCalls(j) = [k \in DOMAIN found |-> DeleteOf(wanted(found[k]))]
    BY DEF DeleteCalls, DeleteEach, DeleteOf
  <1>4. ASSUME NEW k \in places
        PROVE  wanted(k) \in Name /\ Has(wanted(k), j)
    <2>1. k \in DOMAIN List /\ List[k].job = j
      BY DEF EntriesOf
    <2>2. PICK n \in Described : List[k] = Mark(schedules[n])
      BY <2>1, ListIs
    <2>3. List[k].job = schedules[n].job /\ List[k].index = schedules[n].index
      BY <2>2 DEF Mark
    <2>4. wanted(k) = n /\ n \in Name
      BY <2>3, DescribedIs
    <2> QED BY <2>1, <2>3, <2>4 DEF Has, Described
  <1>5. ASSUME NEW n \in Name, Has(n, j)
        PROVE  \E k \in places : wanted(k) = n
    <2>1. n \in Described
      BY <1>5 DEF Has, Described
    <2>2. PICK k \in DOMAIN List : List[k] = Mark(schedules[n])
      BY <2>1, ListIs
    <2>3. List[k].job = schedules[n].job /\ List[k].index = schedules[n].index
      BY <2>2 DEF Mark
    <2>4. k \in places
      BY <1>5, <2>3 DEF Has, EntriesOf
    <2> QED BY <2>1, <2>3, <2>4, DescribedIs
  <1>6. x \in Range(DeleteCalls(j)) <=>
          \E i \in DOMAIN found : x = DeleteOf(wanted(found[i]))
    <2> HIDE DEF found, wanted
    <2> QED BY <1>3 DEF Range
  <1> HIDE DEF found, size, wanted, places
  <1> QED BY <1>2, <1>4, <1>5, <1>6

LEMMA CreatesAre ==
  ASSUME NEW j \in Job, NEW v \in Version
  PROVE  /\ \A x \in Range(CreateCalls(j, v)) :
              \/ x = Refusal
              \/ \E i \in 1..Len(Schedules[v]) : x = CreateOf(Build(j, v, i - 1))
         /\ \A i \in 1..Len(Schedules[v]) :
              \/ Refusal \in Range(CreateCalls(j, v))
              \/ CreateOf(Build(j, v, i - 1)) \in Range(CreateCalls(j, v))
  <1> DEFINE size == Len(Schedules[v])
             create(n) == CreateOf(Build(j, v, n - 1))
             q == CreateCalls(j, v)
  <1>1. DOMAIN Schedules[v] = 1..size
    BY ReconcileAssumption
  <1>2. \A n \in 1..size :
          create(n) = [do |-> "create", name |-> ScheduleName[<<j, n - 1>>],
                       schedule |-> Build(j, v, n - 1)]
    BY BuildIs DEF CreateOf
  <1>3. /\ DOMAIN q = 1..size
        /\ \A n \in 1..size :
             q[n] = IF Translate[Schedules[v][n]] = None THEN Refusal ELSE create(n)
    BY <1>1, <1>2 DEF CreateCalls
  <1> HIDE DEF size, create, q
  <1>4. \A n \in 1..size : q[n] \in {Refusal, create(n)} /\ q[n] \in Range(q)
    BY <1>3 DEF Range
  <1>5. \A x \in Range(q) : \E n \in 1..size : x = q[n]
    BY <1>3 DEF Range
  <1>6. /\ \A x \in Range(q) : x = Refusal \/ \E i \in 1..size : x = create(i)
        /\ \A i \in 1..size : Refusal \in Range(q) \/ create(i) \in Range(q)
    BY <1>4, <1>5
  <1> QED BY <1>6 DEF size, create, q
-----------------------------------------------------------------------------
(* An operation begins.                                                    *)

LEMMA NoCalls == Range(<<>>) = {} /\ DeletesFirst(<<>>)
  BY DEF Range, DeletesFirst

\* What a planned command may find in its manifest.
LEMMA PlannedIs ==
  ASSUME AwsInv, NEW c \in Command, Planned(c)
  PROVE  /\ want[c] \in Manifest
         /\ \A j \in DOMAIN want[c].jobs :
              /\ j \in Job /\ AppOf[j] = want[c].app
              /\ want[c].jobs[j] \in Version
  <1>1. want[c] \in Manifest
    BY DEF AwsInv, CommandInv, ApplyOK, Planned, Stopped
  <1> QED BY <1>1, CommandAssumption

\* A delete begins.
LEMMA DeleteBegins ==
  ASSUME AwsInv, NEW c \in Command, PlanOK(c), CallsOK(c), Progress(c),
         NEW j \in Job, pc[c] = "delete", CallDelete(c, j),
         Begin(c, DeleteCalls(j)), schedules' = schedules
  PROVE  PlanOK(c)' /\ CallsOK(c)' /\ Progress(c)'
  <1> DEFINE ops == DeleteCalls(j)
  <1>1. /\ pc'[c] = pc[c] /\ plan'[c] = plan[c] /\ want'[c] = want[c]
        /\ calls[c] = <<>> /\ calls'[c] = ops
        /\ j \in todo[c] /\ todo'[c] = todo[c] \ {j}
    BY DEF AwsInv, CommandInv, CallDelete, Done, Begin
  <1>2. \A x : x \in Range(ops) <=> \E n \in Name : Has(n, j) /\ x = DeleteOf(n)
    BY DeletesAre DEF AwsInv
  <1>3. \A x \in Range(ops) : x.do = "delete"
    BY <1>2 DEF DeleteOf
  <1>4. \A n : DeleteOf(n) \in Range(ops) <=> n \in Name /\ Has(n, j)
    BY <1>2 DEF DeleteOf
  <1> HIDE DEF ops
  <1>5. PlanOK(c)'
    BY <1>1 DEF PlanOK, Left
  <1>6. /\ Created(c) = {} /\ Updated(c) = {}
        /\ Created(c)' = {} /\ Updated(c)' = {}
        /\ Left(c, "delete") = todo[c] /\ Left(c, "delete")' = todo[c] \ {j}
    BY <1>1 DEF Created, Updated, Left
  <1>7. \A n, k : Has(n, k)' <=> Has(n, k)
    BY DEF Has, IsDescribed
  <1>8. CallsOK(c)'
    <2>1. DeletesFirst(ops)
      BY <1>3 DEF DeletesFirst, Range
    <2>2. j \in plan[c].deletes
      BY <1>1 DEF PlanOK, Left
    <2>3. \A n \in Name :
            DeleteOf(n) \in Range(ops) => schedules[n].job \in plan[c].deletes
      BY <1>4, <2>2 DEF Has
    <2> QED BY <1>1, <1>3, <2>1, <2>3 DEF CallsOK, DeleteOf
  <1>9. Progress(c)'
    <2>1. \A k, v : Holds(k, v)' <=> Holds(k, v)
      BY DEF Holds, Has, IsDescribed
    <2>2. \A n \in Name : IsDescribed(n)' <=> IsDescribed(n)
      BY DEF IsDescribed
    <2>3. ASSUME NEW k \in plan[c].deletes \ (todo[c] \ {j}), NEW n \in Name,
                 Has(n, k)
          PROVE  DeleteOf(n) \in Range(ops)
      <3>1. CASE k = j
        BY <1>4, <2>3, <3>1
      <3>2. CASE k # j
        BY <1>1, <1>6, <2>3, <3>2, NoCalls DEF Progress
      <3> QED BY <3>1, <3>2
    <2>4. \A n : DeleteOf(n)' = DeleteOf(n)
      BY DEF DeleteOf
    <2> QED BY <1>1, <1>6, <1>7, <2>1, <2>2, <2>3, <2>4 DEF Progress
  <1> QED BY <1>5, <1>8, <1>9

\* An update or a create begins, with deletes of what the job has and creates
\* of what it should have.
LEMMA CreateBegins ==
  ASSUME AwsInv, NEW c \in Command, PlanOK(c), CallsOK(c), Progress(c),
         NEW j \in Job, pc[c] \in {"update", "create"},
         CallUpdate(c, j) \/ CallCreate(c, j),
         NEW ops, Begin(c, ops), schedules' = schedules,
         DeletesFirst(ops),
         \A n : DeleteOf(n) \in Range(ops) => n \in Name /\ Has(n, j),
         \A n \in Name : Has(n, j) => DeleteOf(n) \in Range(ops),
         \A call \in Range(ops) :
           call.do = "create" =>
             \E i \in 1..Len(Schedules[want[c].jobs[j]]) :
               call = CreateOf(Build(j, want[c].jobs[j], i - 1)),
         \A i \in 1..Len(Schedules[want[c].jobs[j]]) :
           \/ Refusal \in Range(ops)
           \/ CreateOf(Build(j, want[c].jobs[j], i - 1)) \in Range(ops)
  PROVE  PlanOK(c)' /\ CallsOK(c)' /\ Progress(c)'
  <1> DEFINE begun == Created(c) \cup Updated(c)
             m == want[c]
  <1>1. /\ pc'[c] = pc[c] /\ plan'[c] = plan[c] /\ want'[c] = want[c]
        /\ calls[c] = <<>> /\ calls'[c] = ops
        /\ todo[c] # {} /\ j = NextJob(c) /\ todo'[c] = todo[c] \ {j}
        /\ CommandInv
    BY DEF AwsInv, CommandInv, CallUpdate, CallCreate, Done, Begin
  <1>2. j \in todo[c]
    BY <1>1, NextJobIs
  <1>3. PlanOK(c)'
    BY <1>1 DEF PlanOK, Left
  <1>4. /\ Created(c)' \cup Updated(c)' = begun \cup {j}
        /\ j \notin begun
        /\ plan[c].creates \ Created(c)' \subseteq plan[c].creates \ Created(c)
        /\ j \in plan[c].creates \cup plan[c].updates
        /\ Left(c, "delete") = {} /\ Left(c, "delete")' = {}
    BY <1>1, <1>2 DEF PlanOK, Created, Updated, Left
  <1>5. /\ \A n, k : Has(n, k)' <=> Has(n, k)
        /\ \A k, v : Holds(k, v)' <=> Holds(k, v)
        /\ \A n : IsDescribed(n)' <=> IsDescribed(n)
    BY DEF Has, Holds, IsDescribed
  <1>6. /\ \A n : DeleteOf(n)' = DeleteOf(n)
        /\ \A s : CreateOf(s)' = CreateOf(s)
        /\ \A k, v, i : Build(k, v, i)' = Build(k, v, i)
        /\ \A k, i : NameOf(k, i)' = NameOf(k, i)
    BY DEF DeleteOf, CreateOf, Build, NameOf
  <1>7. begun \subseteq DOMAIN m.jobs
    BY DEF PlanOK, Created, Updated
  <1>8. want[c].jobs[j] = m.jobs[j] /\ m \in Manifest
        /\ \A k \in DOMAIN m.jobs : k \in Job /\ m.jobs[k] \in Version
    BY PlannedIs DEF Planned
  <1>9. CallsOK(c)'
    <2>1. \A n \in Name : DeleteOf(n) \in Range(ops) =>
                            schedules[n].job \in plan[c].deletes \cup plan[c].updates
      <3> SUFFICES ASSUME NEW n \in Name, DeleteOf(n) \in Range(ops)
                   PROVE  j \in plan[c].updates
        BY DEF Has
      <3>1. CASE pc[c] = "update"
        BY <1>2, <3>1 DEF PlanOK, Left
      <3>2. CASE pc[c] = "create"
        <4>1. j \in plan[c].creates \ Created(c)
          BY <1>2, <3>2 DEF PlanOK, Left, Created
        <4> QED BY <4>1 DEF Progress
      <3> QED BY <3>1, <3>2
    <2>2. \A call \in Range(ops) : call.do = "create" =>
            \E k \in begun \cup {j} : \E i \in 1..Len(Schedules[m.jobs[k]]) :
              call = CreateOf(Build(k, m.jobs[k], i - 1))
      OBVIOUS
    <2> HIDE DEF begun
    <2>3. \A n \in Name :
            DeleteOf(n)' \in Range(ops) /\ IsDescribed(n)' =>
              schedules'[n].job \in plan'[c].deletes \cup plan'[c].updates
      BY <1>1, <1>6, <2>1
    <2>4. \A call \in Range(ops) : call.do = "create" =>
            \E k \in Created(c)' \cup Updated(c)' :
              \E i \in 1..Len(Schedules[want'[c].jobs[k]]) :
                call = CreateOf(Build(k, want'[c].jobs[k], i - 1))
      BY <1>1, <1>4, <1>6, <2>2
    <2> QED BY <1>1, <2>3, <2>4 DEF CallsOK
  <1>10. ASSUME NEW k \in begun PROVE Settled(c, k, m.jobs[k])'
    <2> DEFINE v == m.jobs[k]
    <2>1. Settled(c, k, v) /\ v \in Version /\ k \in Job /\ k # j
      BY <1>4, <1>7, <1>8 DEF Progress
    <2>2. ASSUME NEW i \in 1..Len(Schedules[v])
          PROVE  /\ schedules[NameOf(k, i)] = Build(k, v, i - 1)
                 /\ DeleteOf(NameOf(k, i)) \notin Range(ops)
      <3>1. schedules[NameOf(k, i)] = Build(k, v, i - 1)
        BY <1>1, <2>1, NoCalls DEF Settled
      <3>2. Build(k, v, i - 1).job = k
        BY <2>1, BuildIs
      <3> QED BY <2>1, <3>1, <3>2 DEF Has
    <2>3. ASSUME NEW n \in Name, Has(n, k)
          PROVE  \E i \in 1..Len(Schedules[v]) : schedules[n] = Build(k, v, i - 1)
      BY <1>1, <2>1, <2>3, NoCalls DEF Settled
    <2>4. m' = m
      BY <1>1
    <2> HIDE DEF m
    <2> QED BY <1>1, <1>5, <1>6, <2>2, <2>3, <2>4 DEF Settled
  <1>11. Settled(c, j, m.jobs[j])'
    BY <1>1, <1>5, <1>6 DEF Settled
  <1>12. Progress(c)'
    <2>1. m' = m
      BY <1>1
    <2>2. /\ \A k \in plan[c].deletes : \A n \in Name : ~Has(n, k)
          /\ \A k \in plan[c].creates \ Created(c) : \A n \in Name : ~Has(n, k)
          /\ \A k \in plan[c].skips : Holds(k, m.jobs[k])
          /\ \A n \in Name : IsDescribed(n) /\ AppOf[schedules[n].job] = m.app =>
               schedules[n].job \in DOMAIN m.jobs \cup plan[c].deletes
      BY <1>1, <1>4, NoCalls DEF Progress
    <2> HIDE DEF m, begun
    <2>3. \A k \in Created(c)' \cup Updated(c)' : Settled(c, k, m.jobs[k])'
      BY <1>4, <1>10, <1>11
    <2> QED BY <1>1, <1>4, <1>5, <2>1, <2>2, <2>3 DEF Progress, m
  <1> QED BY <1>3, <1>9, <1>12

LEMMA OperationBegins ==
  ASSUME AwsInv, NEW c \in Command, Planned(c),
         PlanOK(c), CallsOK(c), Progress(c), OneJob(c)
  PROVE  PlanOK(c)' /\ CallsOK(c)' /\ Progress(c)'
  <1>1. /\ schedules' = schedules
        /\ Operation(c, DeleteCalls, UpdateCalls, CreateCalls)
    BY DEF OneJob
  <1>2. PICK j \in Job :
          \/ CallDelete(c, j) /\ Begin(c, DeleteCalls(j))
          \/ CallUpdate(c, j) /\ Begin(c, UpdateCalls(j, want[c].jobs[j]))
          \/ CallCreate(c, j) /\ Begin(c, CreateCalls(j, want[c].jobs[j]))
    BY <1>1 DEF Operation
  <1>3. ASSUME CallUpdate(c, j) \/ CallCreate(c, j)
        PROVE  /\ want[c].jobs[j] \in Version /\ pc[c] \in {"update", "create"}
               /\ j \in Left(c, pc[c])
    <2>1. pc[c] \in {"update", "create"} /\ todo[c] # {} /\ j = NextJob(c)
      BY <1>3 DEF CallUpdate, CallCreate
    <2>2. j \in todo[c]
      BY <2>1, NextJobIs DEF AwsInv
    <2>3. j \in Left(c, pc[c]) /\ j \in DOMAIN want[c].jobs
      BY <2>1, <2>2 DEF Left, PlanOK
    <2> QED BY <2>1, <2>3, PlannedIs
  <1> DEFINE v == want[c].jobs[j]
  <1>4. \A x : x \in Range(DeleteCalls(j)) <=> \E n \in Name : Has(n, j) /\ x = DeleteOf(n)
    BY DeletesAre DEF AwsInv
  <1>5. v \in Version =>
          /\ \A x \in Range(CreateCalls(j, v)) :
               \/ x = Refusal
               \/ \E i \in 1..Len(Schedules[v]) : x = CreateOf(Build(j, v, i - 1))
          /\ \A i \in 1..Len(Schedules[v]) :
               \/ Refusal \in Range(CreateCalls(j, v))
               \/ CreateOf(Build(j, v, i - 1)) \in Range(CreateCalls(j, v))
    BY CreatesAre
  <1>6. v \in Version => \A x \in Range(CreateCalls(j, v)) : x.do # "delete"
    <2> HIDE DEF v
    <2>1. Refusal.do # "delete" /\ \A s : CreateOf(s).do # "delete"
      BY DEF CreateOf, Refusal
    <2> QED BY <1>5, <2>1
  <1>7. \A x \in Range(DeleteCalls(j)) : x.do = "delete"
    BY <1>4 DEF DeleteOf
  <1>8. \A n : (DeleteOf(n)).do = "delete" /\ (DeleteOf(n)).name = n
    BY DEF DeleteOf
  <1>9. CASE CallDelete(c, j) /\ Begin(c, DeleteCalls(j))
    <2>1. pc[c] = "delete"
      BY <1>9 DEF CallDelete, Planned
    <2> QED BY <1>1, <1>9, <2>1, DeleteBegins
  <1>10. CASE CallUpdate(c, j) /\ Begin(c, UpdateCalls(j, v))
    <2> DEFINE ops == UpdateCalls(j, v)
    <2>1. v \in Version
      BY <1>3, <1>10
    <2>2. DeleteCalls(j) \in Seq(SafeCall) /\ CreateCalls(j, v) \in Seq(SafeCall)
      BY <2>1, OperationsAreSafe DEF AwsInv
    <2> HIDE DEF v
    <2>3. \A x : x \in Range(ops) <=> \/ x \in Range(DeleteCalls(j))
                                      \/ x \in Range(CreateCalls(j, v))
      BY <2>2, RangeOfConcat DEF UpdateCalls
    <2>4. DeletesFirst(ops)
      <3>1. \A x \in Range(DeleteCalls(j)) : x.do # "create"
        BY <1>7
      <3> QED BY <1>6, <2>1, <2>2, <3>1, DeletesThenCreates DEF UpdateCalls
    <2> HIDE DEF ops
    <2>5. \A n : DeleteOf(n) \in Range(ops) => n \in Name /\ Has(n, j)
      <3> TAKE n
      <3> HAVE DeleteOf(n) \in Range(ops)
      <3>1. DeleteOf(n) \in Range(DeleteCalls(j))
        BY <1>6, <1>8, <2>1, <2>3
      <3>2. PICK k \in Name : Has(k, j) /\ DeleteOf(n) = DeleteOf(k)
        BY <1>4, <3>1
      <3>3. n = k
        BY <1>8, <3>2
      <3> QED BY <3>2, <3>3
    <2>6. \A n \in Name : Has(n, j) => DeleteOf(n) \in Range(ops)
      BY <1>4, <2>3
    <2>7. \A call \in Range(ops) : call.do = "create" =>
            \E i \in 1..Len(Schedules[v]) : call = CreateOf(Build(j, v, i - 1))
      BY <1>5, <1>7, <2>1, <2>3 DEF Refusal
    <2>8. \A i \in 1..Len(Schedules[v]) :
            \/ Refusal \in Range(ops)
            \/ CreateOf(Build(j, v, i - 1)) \in Range(ops)
      BY <1>5, <2>1, <2>3
    <2>9. Begin(c, ops) /\ pc[c] \in {"update", "create"}
      BY <1>3, <1>10 DEF ops
    <2> QED BY <1>1, <1>10, <2>4, <2>5, <2>6, <2>7, <2>8, <2>9, CreateBegins DEF v
  <1>11. CASE CallCreate(c, j) /\ Begin(c, CreateCalls(j, v))
    <2> DEFINE ops == CreateCalls(j, v)
    <2>1. v \in Version
      BY <1>3, <1>11
    <2>2. \A n \in Name : ~Has(n, j)
      <3>1. pc[c] = "create"
        BY <1>11 DEF CallCreate
      <3>2. j \in plan[c].creates \ Created(c)
        BY <1>3, <1>11, <3>1 DEF PlanOK, Left, Created
      <3> QED BY <3>2 DEF Progress
    <2> HIDE DEF v
    <2>3. DeletesFirst(ops)
      BY <1>6, <2>1 DEF DeletesFirst, Range
    <2> HIDE DEF ops
    <2>4. \A n : DeleteOf(n) \notin Range(ops)
      BY <1>6, <1>8, <2>1 DEF ops
    <2>5. \A call \in Range(ops) : call.do = "create" =>
            \E i \in 1..Len(Schedules[v]) : call = CreateOf(Build(j, v, i - 1))
      BY <1>5, <2>1 DEF Refusal, ops
    <2>6. \A i \in 1..Len(Schedules[v]) :
            \/ Refusal \in Range(ops)
            \/ CreateOf(Build(j, v, i - 1)) \in Range(ops)
      BY <1>5, <2>1 DEF ops
    <2>7. Begin(c, ops) /\ pc[c] \in {"update", "create"}
      BY <1>3, <1>11 DEF ops
    <2> QED BY <1>1, <1>11, <2>2, <2>3, <2>4, <2>5, <2>6, <2>7, CreateBegins DEF v
  <1> QED BY <1>2, <1>9, <1>10, <1>11
-----------------------------------------------------------------------------
(* A call is carried out.                                                  *)

LEMMA DeleteRuns ==
  ASSUME AwsInv, NEW c \in Command, Planned(c),
         PlanOK(c), CallsOK(c), Progress(c), RunCall(c),
         DeleteSchedule(Head(calls[c]))
  PROVE  PlanOK(c)' /\ CallsOK(c)' /\ Progress(c)'
  <1> DEFINE q == calls[c]
             r == Tail(calls[c])
             x == Head(calls[c]).name
  <1>1. /\ UNCHANGED commandVars /\ q \in Seq(SafeCall) /\ q # <<>>
        /\ calls'[c] = r
    <2>1. /\ UNCHANGED commandVars /\ q \in Seq(SafeCall) /\ q # <<>>
          /\ calls'[c] = <<>> \o Tail(calls[c])
      BY DEF RunCall, NextCall, AwsInv
    <2>2. r \in Seq(SafeCall)
      BY <2>1, HeadTailProperties
    <2> QED BY <2>1, <2>2, ConcatEmptySeq
  <1>2. /\ Head(q) \in Range(q)
        /\ \A y : y \in Range(r) => y \in Range(q)
        /\ \A y : y \in Range(q) => y = Head(q) \/ y \in Range(r)
        /\ DeletesFirst(r)
    <2>1. DeletesFirst(q)
      BY DEF CallsOK
    <2> QED BY <1>1, <2>1, RangeOfTail, DeletesFirstOfTail
  <1>3. /\ Head(q) = DeleteOf(x) /\ x \in Name
        /\ schedules' = [schedules EXCEPT ![x] = None]
        /\ Undescribed # None
    <2>1. Head(q) \in SafeCall
      BY <1>1, HeadTailProperties
    <2> QED BY <2>1, AwsAssumption
            DEF DeleteSchedule, SafeCall, Call, DeleteOf, Refusal
  <1> HIDE DEF q, r, x
  <1>4. \A n \in Name :
          /\ IsDescribed(n)' => IsDescribed(n) /\ schedules'[n] = schedules[n]
          /\ n # x => schedules'[n] = schedules[n] /\ (IsDescribed(n) => IsDescribed(n)')
          /\ n = x => ~IsDescribed(n)'
    BY <1>3 DEF IsDescribed, AwsInv, SchedulesOK
  <1>5. /\ plan' = plan /\ want' = want /\ pc' = pc /\ todo' = todo
    BY <1>1 DEF commandVars
  <1>6. /\ Created(c)' = Created(c) /\ Updated(c)' = Updated(c)
        /\ Left(c, "delete")' = Left(c, "delete") /\ PlanOK(c)'
    BY <1>5 DEF Created, Updated, Left, PlanOK
  <1>7. \A n \in Name : IsDescribed(n) /\ DeleteOf(n) \in Range(q) =>
          schedules[n].job \in plan[c].deletes \cup plan[c].updates
    BY DEF CallsOK, q
  <1>8. CallsOK(c)'
    <2>1. \A call \in Range(r) : call.do = "create" =>
            \E j \in Created(c) \cup Updated(c) :
              \E i \in 1..Len(Schedules[want[c].jobs[j]]) :
                call = CreateOf(Build(j, want[c].jobs[j], i - 1))
      BY <1>2 DEF CallsOK, q
    <2>2. \A n \in Name : DeleteOf(n) \in Range(r) /\ IsDescribed(n)' =>
            schedules'[n].job \in plan[c].deletes \cup plan[c].updates
      BY <1>2, <1>4, <1>7
    <2> QED BY <1>1, <1>2, <1>5, <1>6, <2>1, <2>2 DEF CallsOK
  <1>9. \A n, j : n \in Name /\ Has(n, j)' =>
                    n # x /\ Has(n, j) /\ schedules'[n] = schedules[n]
    BY <1>4 DEF Has
  <1>10. \A n, j : n \in Name /\ n # x /\ Has(n, j) => Has(n, j)'
    BY <1>4 DEF Has
  <1>11. \A n : n # x => (DeleteOf(n) \in Range(q) <=> DeleteOf(n) \in Range(r))
    BY <1>2, <1>3 DEF DeleteOf
  <1>12. ASSUME NEW j \in plan[c].skips PROVE Holds(j, want[c].jobs[j])'
    <2>1. Holds(j, want[c].jobs[j])
      BY <1>12 DEF Progress
    <2>2. j \notin plan[c].deletes \cup plan[c].updates
      BY <1>12 DEF PlanOK
    <2>3. ~Has(x, j)
      BY <1>2, <1>3, <1>7, <2>2 DEF Has
    <2>4. \A n \in Name : Has(n, j) => Has(n, j)' /\ schedules'[n] = schedules[n]
      BY <1>4, <1>10, <2>3
    <2> QED BY <1>5, <1>9, <2>1, <2>4 DEF Holds
  <1>13. ASSUME NEW j \in Created(c) \cup Updated(c)
         PROVE  Settled(c, j, want[c].jobs[j])'
    <2> DEFINE v == want[c].jobs[j]
    <2>1. Settled(c, j, v) /\ v' = v
      BY <1>5, <1>13 DEF Progress
    <2>2. j \in Job /\ v \in Version
      BY <1>13, PlannedIs DEF PlanOK, Created, Updated
    <2> HIDE DEF v
    <2>3. ASSUME NEW i \in 1..Len(Schedules[v])
          PROVE  \/ Refusal \in Range(r)
                 \/ CreateOf(Build(j, v, i - 1)) \in Range(r)
                 \/ /\ schedules'[NameOf(j, i)] = Build(j, v, i - 1)
                    /\ DeleteOf(NameOf(j, i)) \notin Range(r)
      <3>1. CASE Refusal \in Range(q)
        BY <1>2, <1>3, <3>1 DEF Refusal, DeleteOf
      <3>2. CASE CreateOf(Build(j, v, i - 1)) \in Range(q)
        BY <1>2, <1>3, <3>2 DEF CreateOf, DeleteOf
      <3>3. CASE /\ schedules[NameOf(j, i)] = Build(j, v, i - 1)
                 /\ DeleteOf(NameOf(j, i)) \notin Range(q)
        <4>1. NameOf(j, i) # x
          BY <1>2, <1>3, <3>3
        <4>2. NameOf(j, i) \in Name
          <5>1. <<j, i - 1>> \in DOMAIN ScheduleName
            BY <2>2, ReconcileAssumption, AwsAssumption
          <5> QED BY <5>1, AwsAssumption DEF NameOf, Range
        <4> QED BY <1>2, <1>4, <3>3, <4>1, <4>2
      <3> QED BY <2>1, <3>1, <3>2, <3>3 DEF Settled, q
    <2>4. ASSUME NEW n \in Name, Has(n, j)'
          PROVE  \/ DeleteOf(n) \in Range(r)
                 \/ \E i \in 1..Len(Schedules[v]) : schedules'[n] = Build(j, v, i - 1)
      BY <1>9, <1>11, <2>1, <2>4 DEF Settled, q
    <2> QED BY <1>1, <2>1, <2>3, <2>4 DEF Settled, v
  <1>14. Progress(c)'
    <2>1. \A n \in Name : IsDescribed(n)' /\ AppOf[schedules'[n].job] = want[c].app =>
            schedules'[n].job \in DOMAIN want[c].jobs \cup plan[c].deletes
      BY <1>4 DEF Progress
    <2>2. \A j \in plan[c].deletes \ Left(c, "delete") : \A n \in Name :
            Has(n, j)' => DeleteOf(n) \in Range(r)
      BY <1>9, <1>11 DEF Progress, q
    <2>3. \A j \in plan[c].creates \ Created(c) : \A n \in Name : ~Has(n, j)'
      BY <1>9 DEF Progress
    <2> QED BY <1>1, <1>5, <1>6, <1>12, <1>13, <2>1, <2>2, <2>3 DEF Progress
  <1> QED BY <1>6, <1>8, <1>14

LEMMA CreateRuns ==
  ASSUME AwsInv, NEW c \in Command, Planned(c),
         PlanOK(c), CallsOK(c), Progress(c), RunCall(c),
         CreateSchedule(Head(calls[c]))
  PROVE  PlanOK(c)' /\ CallsOK(c)' /\ Progress(c)'
  <1> DEFINE q == calls[c]
             r == Tail(calls[c])
             begun == Created(c) \cup Updated(c)
             m == want[c]
  <1>1. /\ UNCHANGED commandVars /\ q \in Seq(SafeCall) /\ q # <<>>
        /\ calls'[c] = r
    <2>1. /\ UNCHANGED commandVars /\ q \in Seq(SafeCall) /\ q # <<>>
          /\ calls'[c] = <<>> \o Tail(calls[c])
      BY DEF RunCall, NextCall, AwsInv
    <2>2. r \in Seq(SafeCall)
      BY <2>1, HeadTailProperties
    <2> QED BY <2>1, <2>2, ConcatEmptySeq
  <1>2. /\ Head(q) \in Range(q) /\ Head(q).do = "create"
        /\ \A y : y \in Range(r) => y \in Range(q)
        /\ \A y : y \in Range(q) => y = Head(q) \/ y \in Range(r)
        /\ DeletesFirst(r)
        /\ \A n : DeleteOf(n) \notin Range(q)
    <2>1. DeletesFirst(q) /\ Head(q).do = "create"
      BY DEF CallsOK, CreateSchedule
    <2>2. \A n : (DeleteOf(n)).do = "delete"
      BY DEF DeleteOf
    <2> QED BY <1>1, <2>1, <2>2, RangeOfTail, DeletesFirstOfTail
  <1>3. PICK k \in begun : \E i \in 1..Len(Schedules[m.jobs[k]]) :
               Head(q) = CreateOf(Build(k, m.jobs[k], i - 1))
    BY <1>2 DEF CallsOK
  <1>4. PICK l \in 1..Len(Schedules[m.jobs[k]]) :
               Head(q) = CreateOf(Build(k, m.jobs[k], l - 1))
    BY <1>3
  <1>5. \A j \in begun : j \in Job /\ m.jobs[j] \in Version
    BY PlannedIs DEF PlanOK, Created, Updated
  <1> DEFINE s == Build(k, m.jobs[k], l - 1)
             x == NameOf(k, l)
  <1>6. s.job = k /\ s.index = l - 1 /\ s \notin {None, Undescribed}
    BY <1>3, <1>5, BuildIs
  <1>7. /\ schedules[x] = None /\ schedules' = [schedules EXCEPT ![x] = s]
        /\ schedules \in [Name -> Schedule \cup {None, Undescribed}]
        /\ x \in Name /\ Head(q) = CreateOf(s)
    <2>1. Head(q).name = x /\ Head(q).schedule = s /\ Head(q) = CreateOf(s)
      BY <1>4, <1>6 DEF CreateOf, NameOf
    <2>2. Head(q) \in SafeCall
      BY <1>1, HeadTailProperties
    <2>3. Head(q).name \in Name
      BY <1>2, <2>2 DEF SafeCall, Call, Refusal
    <2> QED BY <2>1, <2>3 DEF CreateSchedule, AwsInv, SchedulesOK
  <1> HIDE DEF q, r, s, x
  <1>8. \A n \in Name :
          /\ n # x => schedules'[n] = schedules[n] /\ (IsDescribed(n)' <=> IsDescribed(n))
          /\ n = x => schedules'[n] = s /\ ~IsDescribed(n)
    BY <1>6, <1>7 DEF IsDescribed
  <1>9. /\ plan' = plan /\ want' = want /\ pc' = pc /\ todo' = todo
    BY <1>1 DEF commandVars
  <1>10. /\ Created(c)' = Created(c) /\ Updated(c)' = Updated(c)
         /\ Left(c, "delete")' = Left(c, "delete") /\ PlanOK(c)'
    BY <1>9 DEF Created, Updated, Left, PlanOK
  <1>11. CallsOK(c)'
    <2>1. \A call \in Range(r) : call.do = "create" =>
            \E j \in begun : \E i \in 1..Len(Schedules[m.jobs[j]]) :
              call = CreateOf(Build(j, m.jobs[j], i - 1))
      BY <1>2 DEF CallsOK, q
    <2>2. \A n \in Name : DeleteOf(n) \notin Range(r)
      BY <1>2
    <2> QED BY <1>1, <1>2, <1>9, <1>10, <2>1, <2>2 DEF CallsOK
  <1>12. /\ k \in DOMAIN m.jobs
         /\ k \notin plan[c].skips \cup plan[c].deletes
         /\ k \notin plan[c].creates \ Created(c)
         /\ \A j \in begun : j \in DOMAIN m.jobs
    BY <1>3 DEF PlanOK, Created, Updated
  <1>13. \A n, j : n \in Name /\ j # k =>
           /\ Has(n, j)' <=> Has(n, j)
           /\ Has(n, j) => schedules'[n] = schedules[n]
    BY <1>6, <1>8 DEF Has
  <1>14. ASSUME NEW j \in plan[c].skips PROVE Holds(j, want[c].jobs[j])'
    <2>1. Holds(j, want[c].jobs[j]) /\ j # k
      BY <1>12, <1>14 DEF Progress
    <2> QED BY <1>9, <1>13, <2>1 DEF Holds
  <1>15. ASSUME NEW j \in begun
         PROVE  Settled(c, j, want[c].jobs[j])'
    <2> DEFINE v == want[c].jobs[j]
    <2>1. Settled(c, j, v) /\ v' = v /\ j \in Job /\ v \in Version
      BY <1>5, <1>9, <1>15 DEF Progress
    <2>2. j = k => s = Build(j, v, l - 1) /\ l \in 1..Len(Schedules[v])
      BY <1>4 DEF s
    <2> HIDE DEF v
    <2>3. ASSUME NEW i \in 1..Len(Schedules[v])
          PROVE  \/ Refusal \in Range(r)
                 \/ CreateOf(Build(j, v, i - 1)) \in Range(r)
                 \/ /\ schedules'[NameOf(j, i)] = Build(j, v, i - 1)
                    /\ DeleteOf(NameOf(j, i)) \notin Range(r)
      <3> DEFINE b == Build(j, v, i - 1)
      <3>1. /\ b \notin {None, Undescribed} /\ b.job = j /\ b.index = i - 1
        BY <2>1, BuildIs
      <3>2. NameOf(j, i) = ScheduleName[<<b.job, b.index>>]
        BY <3>1 DEF NameOf
      <3>3. x = ScheduleName[<<s.job, s.index>>]
        BY <1>6 DEF x, NameOf
      <3> HIDE DEF b
      <3>4. CASE Refusal \in Range(q)
        BY <1>2, <3>4 DEF Refusal
      <3>5. CASE CreateOf(b) \in Range(q)
        <4>1. CASE CreateOf(b) = Head(q)
          <5>1. b = s
            BY <1>7, <4>1 DEF CreateOf
          <5>2. NameOf(j, i) = x
            BY <3>2, <3>3, <5>1
          <5> QED BY <1>2, <1>7, <1>8, <5>1, <5>2 DEF b
        <4>2. CASE CreateOf(b) \in Range(r)
          BY <4>2 DEF b
        <4> QED BY <1>2, <3>5, <4>1, <4>2
      <3>6. CASE schedules[NameOf(j, i)] = b
        <4>1. NameOf(j, i) # x
          BY <1>7, <3>1, <3>6
        <4>2. NameOf(j, i) \in Name
          <5>1. <<j, i - 1>> \in DOMAIN ScheduleName
            BY <2>1, ReconcileAssumption, AwsAssumption
          <5> QED BY <5>1, AwsAssumption DEF NameOf, Range
        <4>3. schedules'[NameOf(j, i)] = b
          BY <1>8, <3>6, <4>1, <4>2
        <4> QED BY <1>2, <4>3 DEF b
      <3> QED BY <2>1, <3>4, <3>5, <3>6 DEF Settled, q, b
    <2>4. ASSUME NEW n \in Name, Has(n, j)'
          PROVE  \/ DeleteOf(n) \in Range(r)
                 \/ \E i \in 1..Len(Schedules[v]) : schedules'[n] = Build(j, v, i - 1)
      <3>1. CASE n = x
        <4>1. schedules'[n] = s /\ j = k
          BY <1>6, <1>8, <2>4, <3>1 DEF Has
        <4> QED BY <2>2, <4>1
      <3>2. CASE n # x
        <4>1. Has(n, j) /\ schedules'[n] = schedules[n]
          BY <1>8, <2>4, <3>2 DEF Has
        <4> QED BY <1>2, <2>1, <4>1 DEF Settled, q
      <3> QED BY <3>1, <3>2
    <2> QED BY <1>1, <2>1, <2>3, <2>4 DEF Settled, v
  <1>16. Progress(c)'
    <2>1. \A n \in Name : IsDescribed(n)' /\ AppOf[schedules'[n].job] = m.app =>
            schedules'[n].job \in DOMAIN m.jobs \cup plan[c].deletes
      BY <1>6, <1>8, <1>12 DEF Progress
    <2>2. \A j \in plan[c].deletes \ Left(c, "delete") : \A n \in Name : ~Has(n, j)'
      BY <1>2, <1>12, <1>13 DEF Progress, q
    <2>3. \A j \in plan[c].creates \ Created(c) : \A n \in Name : ~Has(n, j)'
      BY <1>12, <1>13 DEF Progress
    <2> QED BY <1>1, <1>9, <1>10, <1>14, <1>15, <2>1, <2>2, <2>3 DEF Progress
  <1> QED BY <1>10, <1>11, <1>16

-----------------------------------------------------------------------------
(* A plan is computed, and the passes follow each other.                   *)

\* The jobs that are skipped are those whose descriptions are right.
LEMMA SkipsHold ==
  ASSUME SchedulesOK, NEW m \in Manifest, NEW j \in Compute(m, List).skips
  PROVE  Holds(j, m.jobs[j])
  <1> DEFINE v == m.jobs[j]
             size == Len(Schedules[v])
  <1>1. j \in DOMAIN m.jobs
    BY DEF Compute
  <1>2. v \in Version
    BY <1>1, CommandAssumption
  <1>3. size \in Nat /\ IsListing(List)
    BY <1>2, ListIs, ReconcileAssumption
  <1>4. /\ EntriesOf(List, j) # {}
        /\ ListedHashes(List, j) = DesiredHashes(v)
    BY <1>1, SkippedIs
  <1> HIDE DEF v
  <1>5. /\ \A k \in EntriesOf(List, j) : List[k].index < size
        /\ \A i \in 1..size : HashAt(List, j, i - 1) = Hash(v, i - 1)
    BY <1>2, <1>3, <1>4, SameHashes, Zenon
  <1>6. ASSUME NEW n \in Name, Has(n, j)
        PROVE  /\ schedules[n].index < size
               /\ schedules[n].hash = Hash(v, schedules[n].index)
    <2>1. n \in Described
      BY <1>6 DEF Has, Described
    <2>2. PICK k \in DOMAIN List : List[k] = Mark(schedules[n])
      BY <2>1, ListIs
    <2>3. /\ List[k].job = j /\ List[k].index = schedules[n].index
          /\ List[k].hash = schedules[n].hash
      BY <1>6, <2>2 DEF Mark, Has
    <2>4. List[k].index < size /\ List[k].index \in Nat
      BY <1>3, <1>5, <2>3 DEF EntriesOf, IsListing
    <2>5. List[k].index + 1 \in 1..size /\ (List[k].index + 1) - 1 = List[k].index
      BY <1>3, <2>4
    <2>6. HashAt(List, j, List[k].index) = Hash(v, List[k].index)
      BY <1>5, <2>5
    <2>7. HashAt(List, j, List[k].index) = List[k].hash
      BY <2>3, EntryHash, ListIs DEF IsOnce
    <2> QED BY <2>3, <2>4, <2>6, <2>7
  <1>7. ASSUME NEW i \in 1..size
        PROVE  \E n \in Name : Has(n, j) /\ schedules[n].index = i - 1
    <2>1. Hash(v, i - 1) \in Version \X Nat
      BY <1>2, <1>3 DEF Hash
    <2>2. At(List, j, i - 1) # {}
      BY <1>3, <1>5, <2>1, HashAtIsListed, ReconcileAssumption
    <2>3. PICK k \in DOMAIN List : List[k].job = j /\ List[k].index = i - 1
      BY <2>2 DEF At, EntriesOf
    <2>4. PICK n \in Described : List[k] = Mark(schedules[n])
      BY ListIs
    <2> QED BY <2>3, <2>4 DEF Mark, Has, Described
  <1> QED BY <1>6, <1>7 DEF Holds, v

LEMMA PlanBegins ==
  ASSUME AwsInv, NEW c \in Command, ComputePlan(c, List),
         calls[c] = <<>>, calls' = calls, schedules' = schedules
  PROVE  PlanOK(c)' /\ CallsOK(c)' /\ Progress(c)'
  <1> DEFINE m == want[c]
             p == Compute(m, List)
  <1>1. m \in Manifest
    BY DEF AwsInv, CommandInv, ApplyOK, ComputePlan, Stopped
  <1>2. /\ plan'[c] = p /\ want'[c] = m /\ pc'[c] = "delete"
        /\ todo'[c] = p.deletes /\ calls'[c] = <<>>
    <2>1. /\ plan' = [plan EXCEPT ![c] = p]
          /\ pc' = [pc EXCEPT ![c] = "delete"]
          /\ todo' = [todo EXCEPT ![c] = plan'[c].deletes]
          /\ want' = want
      BY DEF ComputePlan, Pass, Goto
    <2> HIDE DEF p
    <2> QED BY <2>1 DEF AwsInv, CommandInv, CommandTypeOK
  <1>3. \A j : j \in Listed(List) <=> \E n \in Name : Has(n, j)
    <2> TAKE j
    <2>1. ASSUME NEW k \in DOMAIN List, List[k].job = j
          PROVE  \E n \in Name : Has(n, j)
      <3>1. PICK n \in Described : List[k] = Mark(schedules[n])
        BY ListIs DEF AwsInv
      <3> QED BY <2>1, <3>1 DEF Mark, Has, Described
    <2>2. ASSUME NEW n \in Name, Has(n, j)
          PROVE  \E k \in DOMAIN List : List[k].job = j
      <3>1. n \in Described
        BY <2>2 DEF Has, Described
      <3>2. PICK k \in DOMAIN List : List[k] = Mark(schedules[n])
        BY <3>1, ListIs DEF AwsInv
      <3> QED BY <2>2, <3>2 DEF Mark, Has
    <2> QED BY <2>1, <2>2 DEF Listed
  <1>4. /\ p.creates = DOMAIN m.jobs \ Listed(List)
        /\ p.deletes = {j \in Listed(List) \ DOMAIN m.jobs : AppOf[j] = m.app}
        /\ p.creates \cup p.updates \cup p.skips = DOMAIN m.jobs
        /\ p.creates \cap p.updates = {}
        /\ p.skips \cap (p.creates \cup p.updates) = {}
        /\ p.deletes \cap DOMAIN m.jobs = {}
    BY DEF Compute
  <1>5. \A j \in p.skips : Holds(j, m.jobs[j])
    BY <1>1, SkipsHold DEF AwsInv
  <1> HIDE DEF p
  <1>6. PlanOK(c)'
    BY <1>2, <1>4 DEF PlanOK, Left
  <1>7. /\ Created(c)' = {} /\ Updated(c)' = {} /\ Left(c, "delete")' = p.deletes
    BY <1>2 DEF Created, Updated, Left
  <1>8. CallsOK(c)'
    BY <1>2, NoCalls DEF CallsOK
  <1>9. /\ \A n, j : Has(n, j)' <=> Has(n, j)
        /\ \A j, v : Holds(j, v)' <=> Holds(j, v)
        /\ \A n : IsDescribed(n)' <=> IsDescribed(n)
    BY DEF Has, Holds, IsDescribed
  <1>10. Progress(c)'
    <2>1. \A n \in Name : IsDescribed(n) /\ AppOf[schedules[n].job] = m.app =>
            schedules[n].job \in DOMAIN m.jobs \cup p.deletes
      BY <1>3, <1>4 DEF Has
    <2>2. \A j \in p.creates : \A n \in Name : ~Has(n, j)
      BY <1>3, <1>4
    <2> HIDE DEF m
    <2> QED BY <1>2, <1>5, <1>7, <1>9, <2>1, <2>2 DEF Progress
  <1> QED BY <1>6, <1>8, <1>10

\* Steps that change none of what has been begun.
LEMMA ProgressStays ==
  ASSUME NEW c \in Command, CallsOK(c), Progress(c),
         UNCHANGED <<schedules, calls, want, plan>>,
         Created(c)' = Created(c), Updated(c)' = Updated(c),
         Left(c, "delete")' = Left(c, "delete")
  PROVE  CallsOK(c)' /\ Progress(c)'
  <1>1. /\ \A n, j : Has(n, j)' <=> Has(n, j)
        /\ \A n : IsDescribed(n)' <=> IsDescribed(n)
    BY DEF Has, IsDescribed
  <1>2. /\ \A j, v : Holds(j, v)' <=> Holds(j, v)
        /\ \A j, v : Settled(c, j, v)' <=> Settled(c, j, v)
    BY DEF Holds, Settled, Has, IsDescribed
  <1>3. CallsOK(c)'
    BY <1>1 DEF CallsOK
  <1>4. Progress(c)'
    <2>1. \A j \in Created(c) \cup Updated(c) : Settled(c, j, want[c].jobs[j])'
      BY <1>2 DEF Progress
    <2>2. \A j \in plan[c].skips : Holds(j, want[c].jobs[j])'
      BY <1>2 DEF Progress
    <2> QED BY <1>1, <2>1, <2>2 DEF Progress
  <1> QED BY <1>3, <1>4

LEMMA PassContinues ==
  ASSUME AwsInv, NEW c \in Command, Planned(c)',
         Planned(c) => PlanOK(c) /\ CallsOK(c) /\ Progress(c),
         NextPass(c) \/ SpecStep(c), UNCHANGED <<schedules, calls>>
  PROVE  PlanOK(c)' /\ CallsOK(c)' /\ Progress(c)'
  <1>1. /\ plan' = plan /\ want' = want
        /\ pc \in [Command -> Stopped \cup {"compute", "delete", "update", "create",
                                            "specs", "fill", "orphans", "prune"}]
        /\ todo \in [Command -> SUBSET Job]
    BY DEF NextPass, SpecStep, TruncateSpec, FillSpec, RemoveOrphan, AwsInv,
           CommandInv, CommandTypeOK
  <1>2. \/ pc[c] = "delete" /\ pc'[c] = "update" /\ todo[c] = {}
           /\ todo'[c] = plan[c].updates
        \/ pc[c] = "update" /\ pc'[c] = "create" /\ todo[c] = {}
           /\ todo'[c] = plan[c].creates
        \/ pc[c] = "create" /\ pc'[c] = "specs" /\ todo[c] = {}
        \/ pc[c] \in {"specs", "fill", "orphans"}
           /\ pc'[c] \in {"specs", "fill", "orphans"}
    BY <1>1 DEF Planned, NextPass, SpecStep, TruncateSpec, FillSpec, RemoveOrphan,
                Pass, Goto
  <1>3. PlanOK(c) /\ CallsOK(c) /\ Progress(c)
    BY <1>2 DEF Planned
  <1>4. Created(c)' = Created(c) /\ Updated(c)' = Updated(c)
    BY <1>1, <1>2 DEF Created, Updated, Left
  <1>5. Left(c, "delete") = {} /\ Left(c, "delete")' = {}
    BY <1>2 DEF Left
  <1>6. PlanOK(c)'
    BY <1>1, <1>2, <1>3 DEF PlanOK, Left
  <1> QED BY <1>1, <1>3, <1>4, <1>5, <1>6, ProgressStays

-----------------------------------------------------------------------------
(* The invariant of a command alone, and its end.                          *)

LEMMA ConvergeStep ==
  ASSUME \A c, d \in Command : c = d
  PROVE  AwsInv /\ ConvergeInv /\ [Next]_vars => ConvergeInv'
  <1> SUFFICES ASSUME AwsInv, ConvergeInv, [Next]_vars,
                      NEW c \in Command, Planned(c)'
               PROVE  PlanOK(c)' /\ CallsOK(c)' /\ Progress(c)'
    BY DEF ConvergeInv
  <1>1. Planned(c) => PlanOK(c) /\ CallsOK(c) /\ Progress(c)
    BY DEF ConvergeInv
  <1>2. pc \in [Command -> Stopped \cup {"compute", "delete", "update", "create",
                                         "specs", "fill", "orphans", "prune"}]
    BY DEF AwsInv, CommandInv, CommandTypeOK
  <1>3. CASE OneJob(c)
    <2>1. pc' = pc
      BY <1>3 DEF OneJob, Operation, CallDelete, CallUpdate, CallCreate
    <2> QED BY <1>1, <1>3, <2>1, OperationBegins DEF Planned
  <1>4. CASE RunCall(c)
    <2>1. pc' = pc
      BY <1>4 DEF RunCall, NextCall, commandVars
    <2>2. DeleteSchedule(Head(calls[c])) \/ CreateSchedule(Head(calls[c]))
      BY <1>4 DEF RunCall
    <2> QED BY <1>1, <1>4, <2>1, <2>2, DeleteRuns, CreateRuns DEF Planned
  <1>5. CASE Other(c)
    <2>1. calls[c] = <<>> /\ UNCHANGED <<schedules, calls>>
      BY <1>5 DEF Other, Between
    <2>2. \/ \E m \in Manifest : Apply(c, m)
          \/ Prune(c, List) \/ ComputePlan(c, List)
          \/ NextPass(c) \/ SpecStep(c)
      BY <1>5 DEF Other, Between
    <2>3. ~\E m \in Manifest : Apply(c, m)
      BY <1>2 DEF Apply, Goto, Planned
    <2>4. ~Prune(c, List)
      BY <1>2 DEF Prune, Pass, Goto, Planned
    <2>5. CASE ComputePlan(c, List)
      BY <2>1, <2>5, PlanBegins
    <2>6. CASE NextPass(c) \/ SpecStep(c)
      BY <1>1, <2>1, <2>6, PassContinues
    <2> QED BY <2>2, <2>3, <2>4, <2>5, <2>6
  <1>6. ~Stops(c)
    BY <1>2 DEF Stops, Abort, Fail, Pass, Goto, Planned
  <1>7. ~EditByHand
    BY DEF EditByHand, ByHand, commandVars, Planned, Stopped
  <1>8. CASE UNCHANGED vars
    <2>1. UNCHANGED <<schedules, calls, pc, want, plan, todo>>
      BY <1>8 DEF vars, callVars, commandVars
    <2>2. PlanOK(c) /\ CallsOK(c) /\ Progress(c)
      BY <1>1, <2>1 DEF Planned
    <2>3. /\ Created(c)' = Created(c) /\ Updated(c)' = Updated(c)
          /\ Left(c, "delete")' = Left(c, "delete") /\ PlanOK(c)'
      BY <2>1, <2>2 DEF Created, Updated, Left, PlanOK
    <2> QED BY <2>1, <2>2, <2>3, ProgressStays
  <1>9. CASE \E d \in Command : OneJob(d) \/ RunCall(d) \/ Other(d) \/ Stops(d)
    BY <1>3, <1>4, <1>5, <1>6, <1>9
  <1> QED BY <1>7, <1>8, <1>9 DEF Next

\* What the invariant says of an apply at its end.
LEMMA ConvergedAtEnd ==
  ASSUME AwsInv, ConvergeInv, NEW c \in Command, pc[c] = "orphans"
  PROVE  /\ OwnedMarks(want[c].app) = WantedMarks(want[c])
         /\ \A j \in plan[c].creates \cup plan[c].updates :
              Built(j, want[c].jobs[j]) \subseteq Range(schedules)
  <1> DEFINE m == want[c]
             p == plan[c]
             size(j) == Len(Schedules[m.jobs[j]])
             mark(j, i) ==
               [job |-> j, index |-> i - 1, hash |-> Hash(m.jobs[j], i - 1)]
  <1>1. /\ PlanOK(c) /\ Progress(c) /\ m \in Manifest
        /\ \A j \in DOMAIN m.jobs : /\ j \in Job /\ AppOf[j] = m.app
                                    /\ m.jobs[j] \in Version
    BY PlannedIs DEF ConvergeInv, Planned
  <1>2. calls[c] = <<>>
    BY DEF AwsInv
  <1>3. /\ Created(c) = p.creates /\ Updated(c) = p.updates
        /\ Left(c, "delete") = {}
        /\ p.creates \cup p.updates \cup p.skips = DOMAIN m.jobs
    BY <1>1 DEF Created, Updated, Left, PlanOK
  <1>4. /\ \A n \in Name : IsDescribed(n) /\ AppOf[schedules[n].job] = m.app =>
             schedules[n].job \in DOMAIN m.jobs
        /\ \A j \in p.skips : Holds(j, m.jobs[j])
        /\ \A j \in p.creates \cup p.updates :
             /\ \A i \in 1..size(j) :
                  schedules[NameOf(j, i)] = Build(j, m.jobs[j], i - 1)
             /\ \A n \in Name : Has(n, j) =>
                  \E i \in 1..size(j) : schedules[n] = Build(j, m.jobs[j], i - 1)
    <2>1. \A j \in p.creates \cup p.updates : Settled(c, j, m.jobs[j])
      BY <1>1, <1>3 DEF Progress
    <2>2. \A j \in p.deletes : \A n \in Name : ~Has(n, j)
      BY <1>1, <1>2, <1>3, NoCalls DEF Progress
    <2>3. \A n \in Name : IsDescribed(n) /\ AppOf[schedules[n].job] = m.app =>
            schedules[n].job \in DOMAIN m.jobs
      BY <1>1, <2>2 DEF Progress, Has
    <2>4. \A j \in p.skips : Holds(j, m.jobs[j])
      BY <1>1 DEF Progress
    <2>5. ASSUME NEW j \in p.creates \cup p.updates
          PROVE  /\ \A i \in 1..size(j) :
                      schedules[NameOf(j, i)] = Build(j, m.jobs[j], i - 1)
                 /\ \A n \in Name : Has(n, j) =>
                      \E i \in 1..size(j) : schedules[n] = Build(j, m.jobs[j], i - 1)
      BY <1>2, <2>1, NoCalls DEF Settled
    <2> HIDE DEF m, p, size
    <2> QED BY <2>3, <2>4, <2>5
  <1>5. \A j \in DOMAIN m.jobs : \A i \in 1..size(j) :
          /\ NameOf(j, i) \in Name /\ size(j) \in Nat
          /\ DOMAIN Schedules[m.jobs[j]] = 1..size(j)
    <2> TAKE j \in DOMAIN m.jobs
    <2> TAKE i \in 1..size(j)
    <2>1. size(j) \in Nat /\ DOMAIN Schedules[m.jobs[j]] = 1..size(j)
      BY <1>1, ReconcileAssumption
    <2>2. <<j, i - 1>> \in DOMAIN ScheduleName
      BY <1>1, <2>1, AwsAssumption
    <2> QED BY <2>1, <2>2, AwsAssumption DEF NameOf, Range
  <1>6. ASSUME NEW n \in Name, IsDescribed(n), AppOf[schedules[n].job] = m.app
        PROVE  Mark(schedules[n]) \in WantedMarks(m)
    <2> DEFINE j == schedules[n].job
    <2>1. j \in DOMAIN m.jobs /\ Has(n, j)
      BY <1>4, <1>6 DEF Has
    <2>2. \E i \in 1..size(j) : Mark(schedules[n]) = mark(j, i)
      <3>1. CASE j \in p.skips
        <4>1. /\ schedules[n].index < size(j)
              /\ schedules[n].hash = Hash(m.jobs[j], schedules[n].index)
          BY <1>4, <2>1, <3>1 DEF Holds
        <4>2. schedules[n].index \in Nat /\ size(j) \in Nat
          <5>1. n \in Described
            BY <1>6 DEF Described
          <5> QED BY <1>1, <2>1, <5>1, DescribedIs, ReconcileAssumption DEF AwsInv
        <4>3. \A a, b \in Nat : a < b => a + 1 \in 1..b /\ (a + 1) - 1 = a
          OBVIOUS
        <4> HIDE DEF size
        <4>4. /\ schedules[n].index + 1 \in 1..size(j)
              /\ (schedules[n].index + 1) - 1 = schedules[n].index
          BY <4>1, <4>2, <4>3
        <4> QED BY <4>1, <4>4 DEF Mark
      <3>2. CASE j \in p.creates \cup p.updates
        <4>1. PICK i \in 1..size(j) : schedules[n] = Build(j, m.jobs[j], i - 1)
          BY <1>4, <2>1, <3>2
        <4>2. Mark(Build(j, m.jobs[j], i - 1)) = mark(j, i)
          <5> HIDE DEF m, j
          <5> QED BY <1>1, <2>1, <4>1, BuildIs
        <4> QED BY <4>1, <4>2
      <3> QED BY <1>3, <2>1, <3>1, <3>2
    <2> HIDE DEF j
    <2> QED BY <1>1, <2>1, <2>2, WantedMarkIs
  <1>7. ASSUME NEW j \in DOMAIN m.jobs, NEW i \in 1..size(j)
        PROVE  \E n \in Name : Has(n, j) /\ Mark(schedules[n]) = mark(j, i)
    <2>1. CASE j \in p.skips
      <3>1. PICK n \in Name : Has(n, j) /\ schedules[n].index = i - 1
        BY <1>4, <2>1 DEF Holds
      <3>2. schedules[n].hash = Hash(m.jobs[j], i - 1)
        BY <1>4, <2>1, <3>1 DEF Holds
      <3> QED BY <3>1, <3>2 DEF Mark, Has
    <2>2. CASE j \in p.creates \cup p.updates
      <3>1. schedules[NameOf(j, i)] = Build(j, m.jobs[j], i - 1)
        BY <1>4, <2>2
      <3>2. Mark(schedules[NameOf(j, i)]) = mark(j, i) /\ Has(NameOf(j, i), j)
        BY <1>1, <3>1, BuildIs DEF Has, IsDescribed
      <3> QED BY <1>5, <3>2
    <2> QED BY <1>3, <2>1, <2>2
  <1>8. \A e : e \in OwnedMarks(m.app) <=>
          \E n \in Name : /\ IsDescribed(n) /\ AppOf[schedules[n].job] = m.app
                          /\ e = Mark(schedules[n])
    BY DEF OwnedMarks
  <1>9. \A e : e \in WantedMarks(m) <=>
                 \E j \in DOMAIN m.jobs : \E i \in 1..size(j) : e = mark(j, i)
    BY <1>1, WantedMarkIs
  <1>10. ASSUME NEW j \in p.creates \cup p.updates
         PROVE  Built(j, m.jobs[j]) \subseteq Range(schedules)
    <2>1. j \in DOMAIN m.jobs /\ DOMAIN schedules = Name
      BY <1>3 DEF AwsInv, SchedulesOK
    <2>2. DOMAIN Schedules[m.jobs[j]] = 1..size(j)
      BY <1>1, <2>1, ReconcileAssumption
    <2> HIDE DEF m, size
    <2>3. \A i \in 1..size(j) : Build(j, m.jobs[j], i - 1) \in Range(schedules)
      BY <1>4, <1>5, <2>1 DEF Range
    <2> QED BY <2>2, <2>3 DEF Built
  <1> HIDE DEF size, mark
  <1>11. OwnedMarks(m.app) = WantedMarks(m)
    <2>1. ASSUME NEW e \in OwnedMarks(m.app) PROVE e \in WantedMarks(m)
      BY <1>6, <1>8
    <2>2. ASSUME NEW e \in WantedMarks(m) PROVE e \in OwnedMarks(m.app)
      <3>1. PICK j \in DOMAIN m.jobs : \E i \in 1..size(j) : e = mark(j, i)
        BY <1>9
      <3>2. PICK n \in Name : Has(n, j) /\ Mark(schedules[n]) = e
        BY <1>7, <3>1
      <3> QED BY <1>1, <1>8, <3>2 DEF Has
    <2> QED BY <2>1, <2>2
  <1> QED BY <1>10, <1>11

LEMMA ConvergeInvariant ==
  ASSUME \A c, d \in Command : c = d
  PROVE  Spec => [](AwsInv /\ ConvergeInv)
  <1>1. Init => ConvergeInv
    BY DEF Init, CallsInit, CommandInit, ConvergeInv, Planned
  <1> QED BY <1>1, AwsInit, StepKeeps, ConvergeStep, PTL DEF Spec

\* An apply that succeeds, with no other command beside it, leaves exactly the
\* descriptions that its manifest asks for, and of the jobs that it has created
\* or updated the expressions too, whatever earlier commands have failed at and
\* people have edited between them (reconcile.Apply over aws.go).
THEOREM ApplyConverges ==
  ASSUME \A c, d \in Command : c = d
  PROVE  Spec => [][SchedulesConverge]_vars
  <1>1. AwsInv /\ ConvergeInv /\ [Next]_vars => [SchedulesConverge]_vars
    BY ConvergedAtEnd DEF SchedulesConverge, Succeeds
  <1> QED BY <1>1, ConvergeInvariant, PTL DEF Spec
=============================================================================
