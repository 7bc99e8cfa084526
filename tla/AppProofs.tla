----------------------------- MODULE AppProofs ------------------------------
(***************************************************************************)
(* The parts around a fire.  What is written twice agrees where both read  *)
(* it alike, and where they do not is named: the two verifiers of Signing  *)
(* on every header, for any times, windows and secrets, and the two        *)
(* validations and normalizations of Normalize on every manifest.          *)
(* The report of GlobalStatus has every chosen backend once, in order,     *)
(* with its own answer, for any backends and any --parallel.  The delivery *)
(* of a fire, for any policy: a handler that was ok runs again only when   *)
(* its answer was lost, and attempts that fit in the replay window are     *)
(* never refused for their signature.                                      *)
(***************************************************************************)
EXTENDS Signing, Normalize, GlobalStatus, Delivery, OrderingProofs

-----------------------------------------------------------------------------
(* The two normalizations.                                                 *)

\* No field is both there and left out.
LEMMA AbsentIsNothing ==
  ASSUME NEW absent \in {Omitted, Null}
  PROVE  /\ absent \notin Text /\ absent \notin Int /\ absent \notin Schedule
         /\ absent \notin Retries /\ absent \notin Policy /\ absent \notin Auth
         /\ absent \notin Seq(Schedule) /\ absent \notin Seq([valid : BOOLEAN])
  BY NormalizeAssumption DEF NormalizeAssumption

\* The validators of schedules agree on every form but the named ones: the
\* seconds of an @every of Go do not wrap around.
LEMMA SchedulesAgree ==
  ASSUME NEW s \in Schedule, AlikeSchedule(s)
  PROVE  GoSchedule(s) <=> TsSchedule(s)
  <1> DEFINE f == s.form
  <1>1. f \in Form /\ s.pad \in {"none", "space"}
    BY DEF Schedule, AlikeSchedule, AlikePad
  <1>2. CASE f.kind = "fields"
    BY <1>2 DEF GoSchedule, TsSchedule, AlikeSchedule
  <1>3. CASE f.kind = "every"
    <2>1. /\ f.n \in Nat /\ f.upper = FALSE /\ f.sep = "space" /\ f.plus = FALSE
          /\ f.unit \in {"s", "m", "h", "other"} /\ f.n * 3600 <= MaxInt
      BY <1>1, <1>3 DEF Form, AlikeSchedule
    <2>2. f.n \in 1..MaxInt <=> f.n \in 1..MaxNumber
      BY <2>1, MaximaAssumption DEF MaximaAssumption
    <2>3. DOMAIN Seconds = {"s", "m", "h"}
      BY DEF Seconds
    <2>4. f.unit \in DOMAIN Seconds => Wrapped(f.n * Seconds[f.unit]) = f.n * Seconds[f.unit]
      <3>1. Seconds["s"] = 1 /\ Seconds["m"] = 60 /\ Seconds["h"] = 3600
        BY DEF Seconds
      <3>2. f.n * 1 <= MaxInt /\ f.n * 60 <= MaxInt
        BY <2>1, MaximaAssumption DEF MaximaAssumption
      <3>3. \A x : x <= MaxInt => Wrapped(x) = x
        BY DEF Wrapped
      <3> QED BY <2>1, <2>3, <3>1, <3>2, <3>3
    <2>5. GoSchedule(s) <=> /\ f.n \in 1..MaxInt /\ f.unit \in DOMAIN Seconds
                            /\ Wrapped(f.n * Seconds[f.unit]) >= 60
      BY <1>1, <1>3, <2>1 DEF GoSchedule
    <2>6. TsSchedule(s) <=> /\ f.n \in 1..MaxNumber /\ f.unit \in DOMAIN Seconds
                            /\ f.n * Seconds[f.unit] >= 60
      BY <1>1, <1>3, <2>1 DEF TsSchedule
    <2> HIDE DEF f
    <2> QED BY <2>2, <2>4, <2>5, <2>6
  <1>4. CASE f.kind \in {"shortcut", "other"}
    BY <1>1, <1>4 DEF GoSchedule, TsSchedule
  <1>5. f.kind \in {"shortcut", "other", "fields", "every"}
    BY <1>1 DEF Form, AlikeSchedule
  <1> QED BY <1>2, <1>3, <1>4, <1>5

LEMMA RetriesAgree ==
  ASSUME NEW r \in Retries, AlikeRetries(r)
  PROVE  GoRetries(r) <=> TsRetries(r)
  <1>1. /\ r.attempts = Omitted \/ r.attempts \in Int
        /\ r.min = Omitted \/ (r.min \in Int /\ r.min <= MaxSafe)
        /\ r.max = Omitted \/ (r.max \in Int /\ r.max <= MaxSafe)
        /\ r.attempts # Null /\ r.min # Null /\ r.max # Null
    <2>1. /\ r.attempts \in Optional(Int) /\ r.min \in Optional(Int)
          /\ r.max \in Optional(Int)
      BY DEF Retries
    <2> QED BY <2>1 DEF AlikeRetries, Optional
  <1> DEFINE x == r.attempts
             y == r.min
             z == r.max
  <1>2. /\ GoNumber(x, 1, 10) <=> TsNumber(x, 1, 10)
        /\ GoNumber(y, 0, MaxInt) <=> TsNumber(y, 0, MaxSafe)
        /\ GoNumber(z, 1, MaxInt) <=> TsNumber(z, 1, MaxSafe)
        /\ (y \notin Missing /\ z \notin Missing => y <= z)
           <=> (y = Omitted \/ z = Omitted \/ y <= z)
    <2> HIDE DEF x, y, z
    <2> QED BY <1>1, MaximaAssumption DEF MaximaAssumption, GoNumber, TsNumber, Missing, x, y, z
  <1> QED BY <1>2 DEF GoRetries, TsRetries

LEMMA PoliciesAgree ==
  ASSUME NEW p \in Policy, AlikePolicy(p)
  PROVE  GoPolicy(p) <=> TsPolicy(p)
  <1>1. /\ p.concurrency # Null /\ p.scope # Null /\ p.timeout # Null
        /\ p.retries # Null
        /\ p.retries # Omitted => p.retries \in Retries /\ AlikeRetries(p.retries)
    BY DEF AlikePolicy, Policy, Optional
  <1>2. /\ GoOneOf(p.concurrency, Concurrencies) <=> TsOneOf(p.concurrency, Concurrencies)
        /\ GoOneOf(p.scope, Scopes) <=> TsOneOf(p.scope, Scopes)
        /\ GoNumber(p.timeout, 1, 600) <=> TsNumber(p.timeout, 1, 600)
    BY <1>1 DEF GoOneOf, TsOneOf, GoNumber, TsNumber, Missing
  <1>3. (p.retries \notin Missing => GoRetries(p.retries))
        <=> (p.retries = Omitted \/ (p.retries # Null /\ TsRetries(p.retries)))
    BY <1>1, RetriesAgree DEF Missing
  <1> QED BY <1>2, <1>3 DEF GoPolicy, TsPolicy

LEMMA AuthsAgree ==
  ASSUME NEW a, a.refs # Null
  PROVE  GoAuth(a) <=> TsAuth(a)
  BY DEF GoAuth, TsAuth, MaxRefs, Range, Missing

\* Of a job that is spelt alike the two validators say the same.
LEMMA JobsAgree ==
  ASSUME NEW j \in Declared, AlikeJob(j)
  PROVE  GoJob(j) <=> TsJob(j)
  <1>1. /\ j.schedule # Null /\ j.schedules # Null /\ j.timezone # Null
        /\ j.request.method # Null /\ j.request.body # Null
        /\ j.policy # Null /\ j.auth # Null
    BY DEF AlikeJob
  <1>2. /\ j.schedule # Omitted => j.schedule \in Schedule /\ AlikeSchedule(j.schedule)
        /\ j.schedules # Omitted =>
             /\ j.schedules \in Seq(Schedule)
             /\ \A i \in DOMAIN j.schedules : AlikeSchedule(j.schedules[i])
        /\ j.policy # Omitted => j.policy \in Policy /\ AlikePolicy(j.policy)
        /\ j.auth # Omitted => j.auth.refs # Null
    <2>1. /\ j.schedule \in Optional(Schedule) /\ j.schedules \in Optional(Seq(Schedule))
          /\ j.policy \in Optional(Policy)
      BY DEF Declared
    <2> QED BY <1>1, <2>1 DEF AlikeJob, Optional
  <1>3. (j.schedule \notin Missing => GoSchedule(j.schedule))
        <=> (j.schedule = Omitted \/ (j.schedule # Null /\ TsSchedule(j.schedule)))
    BY <1>1, <1>2, SchedulesAgree DEF Missing
  <1>4. ASSUME j.schedules # Omitted
        PROVE  (\A i \in DOMAIN j.schedules : GoSchedule(j.schedules[i]))
               <=> \A s \in Range(j.schedules) : TsSchedule(s)
    <2>1. \A i \in DOMAIN j.schedules :
            j.schedules[i] \in Schedule /\ AlikeSchedule(j.schedules[i])
      BY <1>2, <1>4
    <2>2. \A i \in DOMAIN j.schedules :
            GoSchedule(j.schedules[i]) <=> TsSchedule(j.schedules[i])
      BY <2>1, SchedulesAgree
    <2> QED BY <2>2 DEF Range
  <1>5. GoURL(j.request.url) <=> TsURL(j.request.url)
    <2>1. j.request.url \in URL /\ AlikeURL(j.request.url)
      BY DEF AlikeJob, Declared, HttpRequest
    <2> QED BY <2>1 DEF URL, AlikeURL, GoURL, TsURL
  <1>6. GoOneOf(j.request.method, Methods) <=> TsOneOf(j.request.method, Methods)
    BY <1>1 DEF GoOneOf, TsOneOf, Missing
  <1>7. (j.policy \notin Missing => GoPolicy(j.policy))
        <=> (j.policy = Omitted \/ (j.policy # Null /\ TsPolicy(j.policy)))
    BY <1>1, <1>2, PoliciesAgree DEF Missing
  <1>8. (j.auth \notin Missing => GoAuth(j.auth))
        <=> (j.auth = Omitted \/ (j.auth # Null /\ TsAuth(j.auth)))
    BY <1>1, <1>2, AuthsAgree DEF Missing
  <1>9. (j.schedules \notin Missing =>
           /\ Len(j.schedules) \in 1..MaxSchedules
           /\ \A i \in DOMAIN j.schedules : GoSchedule(j.schedules[i]))
        <=> \/ j.schedules = Omitted
            \/ /\ j.schedules # Null /\ Len(j.schedules) \in 1..64
               /\ \A s \in Range(j.schedules) : TsSchedule(s)
    BY <1>1, <1>4 DEF Missing, MaxSchedules
  <1>10. ((j.schedule \notin Missing) # (j.schedules \notin Missing))
         <=> ((j.schedule = Omitted) # (j.schedules = Omitted))
    BY <1>1 DEF Missing
  <1> QED BY <1>1, <1>3, <1>5, <1>6, <1>7, <1>8, <1>9, <1>10, Zenon DEF GoJob, TsJob

\* The names of a list are as many as its jobs exactly when they differ.
LEMMA NamesDiffer ==
  ASSUME NEW n \in Nat, NEW f
  PROVE  Cardinality({f[i] : i \in 1..n}) = n
         <=> \A i \in 1..n : \A k \in 1..(i - 1) : f[k] # f[i]
  <1> DEFINE T == {f[i] : i \in 1..n}
             g == [i \in 1..n |-> f[i]]
  <1>1. IsFiniteSet(1..n) /\ Cardinality(1..n) = n
    BY FS_Interval
  <1>2. g \in Surjection(1..n, T)
    BY DEF Surjection
  <1>3. g \in Injection(1..n, T) <=> \A i, k \in 1..n : f[i] = f[k] => i = k
    BY <1>2 DEF Injection, IsInjective, Surjection
  <1> HIDE DEF T, g
  <1>4. Cardinality(T) = n <=> g \in Injection(1..n, T)
    BY <1>1, <1>2, FS_Surjection
  <1>5. ASSUME \A i \in 1..n : \A k \in 1..(i - 1) : f[k] # f[i]
        PROVE  \A i, k \in 1..n : f[i] = f[k] => i = k
    <2>1. \A i, k \in 1..n : k < i => f[k] # f[i]
      BY <1>5
    <2>2. \A i, k \in 1..n : k < i \/ i < k \/ i = k
      OBVIOUS
    <2> QED BY <2>1, <2>2
  <1>6. ASSUME \A i, k \in 1..n : f[i] = f[k] => i = k
        PROVE  \A i \in 1..n : \A k \in 1..(i - 1) : f[k] # f[i]
    <2>1. \A i \in 1..n : \A k \in 1..(i - 1) : k \in 1..n /\ k # i
      OBVIOUS
    <2> QED BY <1>6, <2>1
  <1> QED BY <1>3, <1>4, <1>5, <1>6 DEF T

LEMMA ValidationsAgree ==
  ASSUME NEW m, m.jobs \in Seq(Declared), SpeltAlike(m)
  PROVE  TsParse(m) <=> GoParse(m)
  <1> DEFINE n == Len(m.jobs)
             f == [i \in 1..n |-> m.jobs[i].name]
  <1>1. n \in Nat /\ DOMAIN m.jobs = 1..n /\ \A i \in 1..n : m.jobs[i] \in Declared
    OBVIOUS
  <1>2. (\A j \in Range(m.jobs) : TsJob(j)) <=> \A i \in 1..n : GoJob(m.jobs[i])
    <2>1. \A i \in 1..n : GoJob(m.jobs[i]) <=> TsJob(m.jobs[i])
      <3>1. \A i \in 1..n : AlikeJob(m.jobs[i])
        BY <1>1 DEF SpeltAlike
      <3> HIDE DEF n
      <3> QED BY <1>1, <3>1, JobsAgree
    <2> QED BY <1>1, <2>1 DEF Range
  <1>3. {m.jobs[i].name : i \in DOMAIN m.jobs} = {f[i] : i \in 1..n}
    BY <1>1
  <1>4. \A i \in 1..n : \A k \in 1..(i - 1) :
          m.jobs[k].name # m.jobs[i].name <=> f[k] # f[i]
    OBVIOUS
  <1> HIDE DEF n, f
  <1>5. Cardinality({f[i] : i \in 1..n}) = n
        <=> \A i \in 1..n : \A k \in 1..(i - 1) : f[k] # f[i]
    BY <1>1, NamesDiffer
  <1>6. TsParse(m) <=> /\ n \in 1..256
                       /\ \A i \in 1..n : GoJob(m.jobs[i])
                       /\ \A i \in 1..n : \A k \in 1..(i - 1) : f[k] # f[i]
    BY <1>2, <1>3, <1>5 DEF TsParse, n
  <1>7. GoParse(m) <=> /\ n \in 1..256
                       /\ \A i \in 1..n : GoJob(m.jobs[i])
                       /\ \A i \in 1..n : \A k \in 1..(i - 1) : f[k] # f[i]
    BY <1>1, <1>4 DEF GoParse, GoValidate, SpeltAlike, MaxJobs, n
  <1> QED BY <1>6, <1>7

-----------------------------------------------------------------------------
(* The defaults, one job at a time.                                        *)

LEMMA TrimOne ==
  ASSUME NEW x
  PROVE  [i \in DOMAIN <<x>> |-> TsTrim(<<x>>[i])] = <<TsTrim(x)>>
  <1> DEFINE one == <<x>>
  <1>1. DOMAIN one = 1..1 /\ \A i \in 1..1 : one[i] = x
    OBVIOUS
  <1>2. <<TsTrim(x)>> = [i \in 1..1 |-> TsTrim(x)]
    OBVIOUS
  <1> HIDE DEF one
  <1>3. [i \in DOMAIN one |-> TsTrim(one[i])] = [i \in 1..1 |-> TsTrim(x)]
    BY <1>1
  <1> QED BY <1>2, <1>3 DEF one

\* Both give a job the same defaults, when neither its schedule is null nor is
\* there white space around its schedules that only one of them trims.
LEMMA DefaultsAgree ==
  ASSUME NEW j \in Declared, AlikePads(j), j.schedule # Null
  PROVE  GoDefaultsJob(j) = TsDefaultsJob(j)
  <1> DEFINE p == Default(j.policy, NoPolicy)
             r == Default(p.retries, NoRetries)
             of(x, f, d) == IF x \in Missing THEN d ELSE Default(x[f], d)
             retries == of(j.policy, "retries", Omitted)
             listed == Default(j.schedules,
                         IF j.schedule # Omitted THEN <<j.schedule>> ELSE <<>>)
  <1>1. \A d : /\ Default(p.concurrency, d) = of(j.policy, "concurrency", d)
              /\ Default(p.scope, d) = of(j.policy, "scope", d)
              /\ Default(p.timeout, d) = of(j.policy, "timeout", d)
    BY DEF Default, NoPolicy, Missing
  <1>2. /\ p.retries \in Missing <=> retries \in Missing
        /\ p.retries \notin Missing => p.retries = retries
    BY DEF Default, NoPolicy, Missing
  <1>3. \A d : /\ Default(r.attempts, d) = of(retries, "attempts", d)
              /\ Default(r.min, d) = of(retries, "min", d)
              /\ Default(r.max, d) = of(retries, "max", d)
    <2> HIDE DEF p, retries
    <2>1. CASE p.retries \in Missing
      BY <1>2, <2>1 DEF Default, NoRetries, Missing
    <2>2. CASE p.retries \notin Missing
      BY <1>2, <2>2 DEF Default
    <2> QED BY <2>1, <2>2
  <1>4. (IF j.auth \in Missing THEN <<>> ELSE Default(j.auth.refs, <<>>))
        = of(j.auth, "refs", <<>>)
    OBVIOUS
  <1>5. (IF j.schedules \notin Missing
           THEN [i \in DOMAIN j.schedules |-> GoTrim(j.schedules[i])]
         ELSE IF j.schedule \notin Missing THEN <<GoTrim(j.schedule)>>
         ELSE <<>>)
        = [i \in DOMAIN listed |-> TsTrim(listed[i])]
    <2>1. \A x : AlikePad(x) => GoTrim(x) = TsTrim(x)
      BY DEF AlikePad, GoTrim, TsTrim
    <2>2. CASE j.schedules \notin Missing
      <3>1. \A i \in DOMAIN j.schedules : GoTrim(j.schedules[i]) = TsTrim(j.schedules[i])
        BY <2>1, <2>2 DEF AlikePads
      <3>2. listed = j.schedules
        BY <2>2 DEF Default
      <3> HIDE DEF listed
      <3> QED BY <2>2, <3>1, <3>2
    <2>3. CASE j.schedules \in Missing /\ j.schedule # Omitted
      <3>1. listed = <<j.schedule>> /\ j.schedule \notin Missing
        BY <2>3 DEF Default, Missing
      <3>2. GoTrim(j.schedule) = TsTrim(j.schedule)
        BY <2>1, <3>1 DEF AlikePads
      <3>3. [i \in DOMAIN <<j.schedule>> |-> TsTrim(<<j.schedule>>[i])]
            = <<TsTrim(j.schedule)>>
        BY TrimOne
      <3> HIDE DEF listed
      <3> QED BY <2>3, <3>1, <3>2, <3>3
    <2>4. CASE j.schedules \in Missing /\ j.schedule = Omitted
      <3>1. listed = <<>> /\ j.schedule \in Missing
        BY <2>4 DEF Default, Missing
      <3> QED BY <2>4, <3>1
    <2> QED BY <2>2, <2>3, <2>4
  <1> HIDE DEF p, r, retries, listed
  <1> QED BY <1>1, <1>3, <1>4, <1>5, ZenonT(60)
         DEF GoDefaultsJob, TsDefaultsJob, p, r, retries, listed

Trimmed == {s \in Schedule : s.pad = "none"}

\* A job where every default is filled in, and a schedule has no white space.
Normal ==
  [name : Nat, schedules : Seq(Trimmed),
   timezone : Text, request : [url : URL, method : Text, body : Text],
   policy : [concurrency : Text, scope : Text, timeout : Int,
             retries : [attempts : Int, min : Int, max : Int]],
   auth : [refs : Seq([valid : BOOLEAN])]]

LEMMA DefaultsAreNormal ==
  ASSUME NEW j \in Declared, AlikePads(j)
  PROVE  GoDefaultsJob(j) \in Normal
  <1> DEFINE p == Default(j.policy, NoPolicy)
             r == Default(p.retries, NoRetries)
             d == GoDefaultsJob(j)
  <1>1. /\ \A x \in Optional(Text) : \A y \in Text : Default(x, y) \in Text
        /\ "UTC" \in Text /\ "POST" \in Text /\ "" \in Text
        /\ "Forbid" \in Text /\ "host" \in Text
    BY NormalizeAssumption DEF Default, Optional, Missing, NormalizeAssumption
  <1>2. /\ p.concurrency \in Optional(Text) /\ p.scope \in Optional(Text)
        /\ p.timeout \in Optional(Int) /\ p.retries \in Optional(Retries)
    BY DEF Default, NoPolicy, Optional, Policy, Declared, Missing
  <1>3. /\ r.attempts \in Optional(Int) /\ r.min \in Optional(Int)
        /\ r.max \in Optional(Int)
    <2> HIDE DEF p
    <2> QED BY <1>2 DEF Default, NoRetries, Optional, Retries, Missing
  <1> HIDE DEF r, p
  <1>4. d.policy \in [concurrency : Text, scope : Text, timeout : Int,
                      retries : [attempts : Int, min : Int, max : Int]]
    <2>1. /\ Default(p.concurrency, "Forbid") \in Text
          /\ Default(p.scope, "host") \in Text
      BY <1>1, <1>2
    <2>2. /\ Default(p.timeout, 60) \in Int /\ Default(r.attempts, 3) \in Int
          /\ Default(r.min, 1) \in Int /\ Default(r.max, 60) \in Int
      BY <1>2, <1>3 DEF Default, Optional, Missing
    <2>3. d.policy = [concurrency |-> Default(p.concurrency, "Forbid"),
                      scope |-> Default(p.scope, "host"),
                      timeout |-> Default(p.timeout, 60),
                      retries |-> [attempts |-> Default(r.attempts, 3),
                                   min |-> Default(r.min, 1),
                                   max |-> Default(r.max, 60)]]
      BY DEF GoDefaultsJob, p, r
    <2> QED BY <2>1, <2>2, <2>3
  <1>5. ASSUME NEW s \in Schedule, AlikePad(s)
        PROVE  GoTrim(s) \in Trimmed
    <2>1. GoTrim(s) = [s EXCEPT !.pad = "none"]
      BY <1>5 DEF GoTrim, AlikePad
    <2>2. "none" \in Space
      BY DEF Space
    <2> QED BY <2>1, <2>2 DEF Schedule, Trimmed
  <1>6. d.schedules \in Seq(Trimmed)
    <2>1. CASE j.schedules \notin Missing
      <3>1. /\ j.schedules \in Seq(Schedule)
            /\ \A i \in 1..Len(j.schedules) : AlikePad(j.schedules[i])
        BY <2>1 DEF Declared, Optional, Missing, AlikePads
      <3>2. d.schedules = [i \in 1..Len(j.schedules) |-> GoTrim(j.schedules[i])]
        BY <2>1, <3>1 DEF GoDefaultsJob
      <3> QED BY <1>5, <3>1, <3>2
    <2>2. CASE j.schedules \in Missing /\ j.schedule \notin Missing
      <3>1. j.schedule \in Schedule /\ AlikePad(j.schedule)
        BY <2>2 DEF Declared, Optional, Missing, AlikePads
      <3>2. d.schedules = <<GoTrim(j.schedule)>>
        BY <2>2 DEF GoDefaultsJob
      <3> QED BY <1>5, <3>1, <3>2
    <2>3. CASE j.schedules \in Missing /\ j.schedule \in Missing
      BY <2>3 DEF GoDefaultsJob
    <2> QED BY <2>1, <2>2, <2>3
  <1>7. d.timezone \in Text
    BY <1>1 DEF GoDefaultsJob, Declared
  <1>8. d.request \in [url : URL, method : Text, body : Text]
    <2>1. /\ j.request.url \in URL /\ j.request.method \in Optional(Text)
          /\ j.request.body \in Optional(Text)
      BY DEF Declared, HttpRequest
    <2> QED BY <1>1, <2>1 DEF GoDefaultsJob
  <1>9. d.auth \in [refs : Seq([valid : BOOLEAN])]
    <2> DEFINE refs == IF j.auth \in Missing THEN <<>> ELSE Default(j.auth.refs, <<>>)
    <2>1. <<>> \in Seq([valid : BOOLEAN])
      OBVIOUS
    <2>2. j.auth \notin Missing => j.auth.refs \in Optional(Seq([valid : BOOLEAN]))
      BY DEF Declared, Optional, Auth, Missing
    <2>3. refs \in Seq([valid : BOOLEAN])
      BY <2>1, <2>2 DEF Default, Optional, Missing
    <2>4. d.auth = [refs |-> refs]
      BY DEF GoDefaultsJob
    <2> HIDE DEF refs
    <2> QED BY <2>3, <2>4
  <1>10. d.name \in Nat
    BY DEF GoDefaultsJob, Declared
  <1> QED BY <1>4, <1>6, <1>7, <1>8, <1>9, <1>10 DEF GoDefaultsJob, Normal

\* A job as the SDK serves it.
AsServed(d) ==
  [name |-> d.name, schedule |-> Omitted, schedules |-> d.schedules,
   timezone |-> d.timezone, request |-> d.request, policy |-> d.policy,
   auth |-> d.auth]

\* Where every default is filled in there is nothing left to fill in.
LEMMA NormalStays ==
  ASSUME NEW d \in Normal
  PROVE  GoDefaultsJob(AsServed(d)) = d
  <1> DEFINE a == AsServed(d)
             p == Default(a.policy, NoPolicy)
             r == Default(p.retries, NoRetries)
  <1>1. \A x, y : x \notin Missing => Default(x, y) = x
    BY DEF Default
  <1>2. /\ a.name = d.name /\ a.schedule = Omitted /\ a.schedules = d.schedules
        /\ a.timezone = d.timezone /\ a.request = d.request
        /\ a.policy = d.policy /\ a.auth = d.auth
    BY DEF AsServed
  <1> HIDE DEF a
  <1>3. /\ \A x \in Text : x \notin Missing
        /\ \A x \in Int : x \notin Missing
        /\ \A x \in Retries : x \notin Missing
        /\ \A x \in Policy : x \notin Missing
        /\ \A x \in Auth : x \notin Missing
        /\ \A x \in Seq(Schedule) : x \notin Missing
        /\ \A x \in Seq([valid : BOOLEAN]) : x \notin Missing
    BY AbsentIsNothing, Zenon DEF Missing
  <1>4. /\ d.policy \in Policy /\ d.policy.retries \in Retries
        /\ d.policy.concurrency \in Text /\ d.policy.scope \in Text
        /\ d.policy.timeout \in Int /\ d.policy.retries.attempts \in Int
        /\ d.policy.retries.min \in Int /\ d.policy.retries.max \in Int
    BY DEF Normal, Policy, Retries, Optional
  <1>5. p = d.policy /\ r = d.policy.retries
    BY <1>1, <1>2, <1>3, <1>4
  <1> HIDE DEF p, r
  <1>6. d.policy = [concurrency |-> Default(p.concurrency, "Forbid"),
                    scope |-> Default(p.scope, "host"),
                    timeout |-> Default(p.timeout, 60),
                    retries |-> [attempts |-> Default(r.attempts, 3),
                                 min |-> Default(r.min, 1),
                                 max |-> Default(r.max, 60)]]
    BY <1>1, <1>3, <1>4, <1>5 DEF Normal
  <1>7. d.schedules \in Seq(Schedule) /\ \A i \in DOMAIN d.schedules :
                                           GoTrim(d.schedules[i]) = d.schedules[i]
    <2>1. \A s \in Trimmed : s \in Schedule /\ GoTrim(s) = s
      BY DEF GoTrim, Schedule, Trimmed
    <2>2. d.schedules \in Seq(Trimmed)
      BY DEF Normal
    <2> QED BY <2>1, <2>2
  <1>8. d.schedules = [i \in DOMAIN d.schedules |-> GoTrim(d.schedules[i])]
    BY <1>7
  <1>9. d.request = [url |-> d.request.url,
                     method |-> Default(d.request.method, "POST"),
                     body |-> Default(d.request.body, "")]
    <2>1. d.request \in [url : URL, method : Text, body : Text]
      BY DEF Normal
    <2> QED BY <1>1, <1>3, <2>1
  <1>10. d.auth \in Auth /\ d.auth = [refs |-> Default(d.auth.refs, <<>>)]
    <2>1. d.auth \in [refs : Seq([valid : BOOLEAN])]
      BY DEF Normal
    <2> QED BY <1>1, <1>3, <2>1 DEF Auth, Optional
  <1>11. Default(d.timezone, "UTC") = d.timezone
    BY <1>1, <1>3 DEF Normal
  <1>12. d = [name |-> d.name, schedules |-> d.schedules, timezone |-> d.timezone,
              request |-> d.request, policy |-> d.policy, auth |-> d.auth]
    BY DEF Normal
  <1>13. d.schedules \notin Missing /\ d.auth \notin Missing
    BY <1>3, <1>7, <1>10
  <1> DEFINE policyOf == [concurrency |-> Default(p.concurrency, "Forbid"),
                          scope |-> Default(p.scope, "host"),
                          timeout |-> Default(p.timeout, 60),
                          retries |-> [attempts |-> Default(r.attempts, 3),
                                       min |-> Default(r.min, 1),
                                       max |-> Default(r.max, 60)]]
  <1>14. GoDefaultsJob(a) =
           [name |-> d.name,
            schedules |-> [i \in DOMAIN d.schedules |-> GoTrim(d.schedules[i])],
            timezone |-> Default(d.timezone, "UTC"),
            request |-> [url |-> d.request.url,
                         method |-> Default(d.request.method, "POST"),
                         body |-> Default(d.request.body, "")],
            policy |-> policyOf,
            auth |-> [refs |-> Default(d.auth.refs, <<>>)]]
    BY <1>2, <1>13 DEF GoDefaultsJob, p, r
  <1>15. policyOf = d.policy
    BY <1>6
  <1> HIDE DEF policyOf
  <1> QED BY <1>8, <1>9, <1>10, <1>11, <1>12, <1>14, <1>15 DEF a

-----------------------------------------------------------------------------
(* The sort by name.                                                       *)

\* A list of jobs whose names are numbers, no two the same.
IsNamed(jobs, n) ==
  /\ n \in Nat /\ DOMAIN jobs = 1..n
  /\ \A i \in 1..n : jobs[i].name \in Nat
  /\ \A i, k \in 1..n : jobs[i].name = jobs[k].name => i = k

NamesOf(jobs) == {jobs[i].name : i \in DOMAIN jobs}

LEMMA NamesAreFinite ==
  ASSUME NEW jobs, NEW n, IsNamed(jobs, n)
  PROVE  /\ NamesOf(jobs) \in SUBSET Nat /\ IsFiniteSet(NamesOf(jobs))
         /\ Cardinality(NamesOf(jobs)) = n
  <1> DEFINE f == [i \in 1..n |-> jobs[i].name]
  <1>1. IsFiniteSet(1..n) /\ Cardinality(1..n) = n
    BY FS_Interval DEF IsNamed
  <1>2. f \in Surjection(1..n, NamesOf(jobs))
    BY DEF Surjection, NamesOf, IsNamed
  <1>3. f \in Injection(1..n, NamesOf(jobs))
    BY <1>2 DEF Injection, IsInjective, Surjection, IsNamed
  <1> HIDE DEF f
  <1>4. NamesOf(jobs) \in SUBSET Nat
    BY DEF NamesOf, IsNamed
  <1> QED BY <1>1, <1>2, <1>3, <1>4, FS_Surjection

LEMMA ByNameIsFunction ==
  ASSUME NEW jobs
  PROVE  ByName(jobs) = [k \in DOMAIN ByName(jobs) |-> ByName(jobs)[k]]
  <1> DEFINE names == InOrder(NamesOf(jobs))
             found(k) == CHOOSE j \in Range(jobs) : j.name = names[k]
  <1>1. ByName(jobs) = [k \in DOMAIN names |-> found(k)]
    BY DEF ByName, NamesOf
  <1> HIDE DEF names, found
  <1> QED BY <1>1

\* The sort has the jobs that the list has, each at the place of its name.
LEMMA ByNameSorts ==
  ASSUME NEW jobs, NEW n, IsNamed(jobs, n)
  PROVE  /\ DOMAIN ByName(jobs) = 1..n
         /\ \A k \in 1..n : /\ ByName(jobs)[k] \in Range(jobs)
                            /\ ByName(jobs)[k].name = InOrder(NamesOf(jobs))[k]
  <1> DEFINE names == InOrder(NamesOf(jobs))
  <1>1. DOMAIN names = 1..n /\ \A k \in 1..n : names[k] \in NamesOf(jobs)
    BY NamesAreFinite, InOrderLists
  <1>2. ByName(jobs) = [k \in DOMAIN names |->
                          CHOOSE j \in Range(jobs) : j.name = names[k]]
    BY DEF ByName, NamesOf
  <1> HIDE DEF names
  <1>3. ASSUME NEW k \in 1..n PROVE \E j \in Range(jobs) : j.name = names[k]
    BY <1>1, <1>3 DEF NamesOf, Range
  <1>4. ASSUME NEW k \in 1..n
        PROVE  ByName(jobs)[k] \in Range(jobs) /\ ByName(jobs)[k].name = names[k]
    BY <1>1, <1>2, <1>3
  <1> QED BY <1>1, <1>2, <1>4 DEF names

LEMMA ByNameIsNamed ==
  ASSUME NEW jobs, NEW n, IsNamed(jobs, n)
  PROVE  IsNamed(ByName(jobs), n) /\ NamesOf(ByName(jobs)) = NamesOf(jobs)
  <1> DEFINE names == InOrder(NamesOf(jobs))
             sorted == ByName(jobs)
  <1>1. /\ n \in Nat /\ DOMAIN sorted = 1..n
        /\ \A k \in 1..n : sorted[k].name = names[k]
    BY ByNameSorts DEF IsNamed
  <1>2. NamesOf(jobs) \in SUBSET Nat
    BY NamesAreFinite
  <1>3. /\ \A k \in 1..n : names[k] \in NamesOf(jobs)
        /\ \A k, l \in 1..n : names[k] = names[l] => k = l
        /\ \A x \in NamesOf(jobs) : \E k \in 1..n : names[k] = x
    BY NamesAreFinite, InOrderLists
  <1> HIDE DEF names, sorted
  <1>4. NamesOf(sorted) = {names[k] : k \in 1..n}
    BY <1>1 DEF NamesOf
  <1>5. {names[k] : k \in 1..n} = NamesOf(jobs)
    BY <1>3
  <1>6. IsNamed(sorted, n)
    BY <1>1, <1>2, <1>3 DEF IsNamed
  <1> QED BY <1>4, <1>5, <1>6 DEF sorted

\* A list that is sorted already stays as it is.
LEMMA SortedStays ==
  ASSUME NEW jobs, NEW n, IsNamed(jobs, n), NEW F, F = ByName(jobs)
  PROVE  \A k \in 1..n : ByName(F)[k] = F[k]
  <1>1. /\ IsNamed(F, n) /\ NamesOf(F) = NamesOf(jobs)
    BY ByNameIsNamed
  <1>2. DOMAIN F = 1..n
    BY <1>1 DEF IsNamed
  <1> SUFFICES ASSUME NEW k \in 1..n PROVE ByName(F)[k] = F[k]
    OBVIOUS
  <1>3. ByName(F)[k] \in Range(F) /\ ByName(F)[k].name = F[k].name
    BY <1>1, ByNameSorts
  <1>4. PICK l \in 1..n : ByName(F)[k] = F[l]
    BY <1>2, <1>3 DEF Range
  <1>5. k = l
    BY <1>1, <1>3, <1>4 DEF IsNamed
  <1> QED BY <1>4, <1>5

-----------------------------------------------------------------------------
\* A valid manifest is a list of jobs no two of which share a name.
LEMMA ValidIsNamed ==
  ASSUME NEW m, m.jobs \in Seq(Declared), GoValidate(m)
  PROVE  IsNamed([i \in DOMAIN m.jobs |-> GoDefaultsJob(m.jobs[i])], Len(m.jobs))
  <1> DEFINE n == Len(m.jobs)
  <1>1. n \in Nat /\ DOMAIN m.jobs = 1..n
    OBVIOUS
  <1>2. \A i \in 1..n : m.jobs[i].name \in Nat
    <2>1. \A i \in 1..n : m.jobs[i] \in Declared
      OBVIOUS
    <2>2. \A j \in Declared : j.name \in Nat
      BY DEF Declared
    <2> HIDE DEF n
    <2> QED BY <2>1, <2>2
  <1>3. \A i \in 1..n : \A k \in 1..(i - 1) : m.jobs[k].name # m.jobs[i].name
    BY <1>1 DEF GoValidate
  <1> HIDE DEF n
  <1>4. ASSUME NEW i \in 1..n, NEW k \in 1..n, m.jobs[i].name = m.jobs[k].name
        PROVE  i = k
    <2>1. ~(k < i) /\ ~(i < k)
      BY <1>1, <1>3, <1>4
    <2> QED BY <2>1, <1>1
  <1> QED BY <1>1, <1>2, <1>4 DEF IsNamed, GoDefaultsJob, n

LEMMA ServedIsTheSame ==
  ASSUME NEW m, m.jobs \in Seq(Declared), GoValidate(m),
         \A i \in DOMAIN m.jobs : AlikePads(m.jobs[i]),
         TsApplyDefaults(m) = GoApplyDefaults(m)
  PROVE  GoApplyDefaults(Served(m)) = GoApplyDefaults(m)
  <1> DEFINE n == Len(m.jobs)
             G == [i \in DOMAIN m.jobs |-> GoDefaultsJob(m.jobs[i])]
             S == ByName(G)
             again == [i \in DOMAIN S |-> GoDefaultsJob(AsServed(S[i]))]
  <1>1. IsNamed(G, n)
    BY ValidIsNamed
  <1>2. /\ DOMAIN S = 1..n /\ \A k \in 1..n : S[k] \in Range(G)
    <2> HIDE DEF G
    <2> QED BY <1>1, ByNameSorts
  <1>3. \A j \in Range(G) : j \in Normal
    <2>1. \A i \in DOMAIN m.jobs : m.jobs[i] \in Declared
      OBVIOUS
    <2>2. \A i \in DOMAIN m.jobs : GoDefaultsJob(m.jobs[i]) \in Normal
      BY <2>1, DefaultsAreNormal
    <2> QED BY <2>2 DEF Range
  <1>4. GoApplyDefaults(m) = [jobs |-> S] /\ TsApplyDefaults(m).jobs = S
    BY DEF GoApplyDefaults
  <1>5. Served(m).jobs = [i \in DOMAIN S |-> AsServed(S[i])]
    <2> HIDE DEF S
    <2> QED BY <1>4 DEF Served, AsServed
  <1> HIDE DEF G
  <1>6. again = S
    <2>1. \A i \in 1..n : GoDefaultsJob(AsServed(S[i])) = S[i]
      BY <1>2, <1>3, NormalStays
    <2>2. S = [i \in 1..n |-> S[i]]
      <3>1. S = [k \in DOMAIN S |-> S[k]]
        BY ByNameIsFunction
      <3> QED BY <1>2, <3>1
    <2> HIDE DEF S
    <2> QED BY <1>2, <2>1, <2>2
  <1>7. GoApplyDefaults(Served(m)) = [jobs |-> ByName(again)]
    <2> HIDE DEF S
    <2> QED BY <1>5 DEF GoApplyDefaults
  <1>8. ByName(S) = S
    <2>1. \A k \in 1..n : ByName(S)[k] = S[k]
      BY <1>1, SortedStays
    <2>2. DOMAIN ByName(S) = 1..n
      BY <1>1, ByNameIsNamed, ByNameSorts
    <2>3. \A jobs : ByName(jobs) = [k \in DOMAIN ByName(jobs) |-> ByName(jobs)[k]]
      BY ByNameIsFunction
    <2>4. /\ ByName(S) = [k \in 1..n |-> ByName(S)[k]]
          /\ S = [k \in 1..n |-> S[k]]
      BY <1>2, <2>2, <2>3
    <2> HIDE DEF S
    <2> QED BY <2>1, <2>4
  <1> QED BY <1>4, <1>6, <1>7, <1>8

\* For manifests of any number of jobs with any fields and schedules, and not
\* only of "spec/manifest-vectors.json" (concepts/manifest.md:163): of those
\* that are spelt alike the two languages accept the same, their validators of
\* schedules included; all that both accept, if both trim what is around its
\* schedules, they give the same normal form; and a manifest that was
\* normalized before, by the application that serves it, is normalized to what
\* it is already.
THEOREM NormalFormsAlwaysAgree == NormalizeSpec => []NormalFormsAgree
  <1> DEFINE Inv == manifest \in Manifests
  <1>1. ASSUME manifest \in Manifests PROVE NormalFormsAgree
    <2>1. manifest.jobs \in Seq(Declared)
      BY <1>1, NormalizeAssumption DEF NormalizeAssumption
    <2>2. SpeltAlike(manifest) => (TsParse(manifest) <=> GoParse(manifest))
      BY <2>1, ValidationsAgree
    <2>3. ASSUME TsParse(manifest), GoParse(manifest),
                 \A i \in DOMAIN manifest.jobs : AlikePads(manifest.jobs[i])
          PROVE  /\ TsApplyDefaults(manifest) = GoApplyDefaults(manifest)
                 /\ GoApplyDefaults(Served(manifest)) = GoApplyDefaults(manifest)
      <3>1. ASSUME NEW i \in DOMAIN manifest.jobs
            PROVE  GoDefaultsJob(manifest.jobs[i]) = TsDefaultsJob(manifest.jobs[i])
        <4>1. manifest.jobs[i] \in Declared /\ manifest.jobs[i] \in Range(manifest.jobs)
          BY <2>1 DEF Range
        <4>2. manifest.jobs[i].schedule # Null
          <5>1. TsJob(manifest.jobs[i])
            BY <2>3, <4>1 DEF TsParse
          <5>2. Null # Omitted
            BY NormalizeAssumption DEF NormalizeAssumption
          <5> QED BY <5>1, <5>2 DEF TsJob
        <4> QED BY <2>3, <4>1, <4>2, DefaultsAgree
      <3>2. TsApplyDefaults(manifest) = GoApplyDefaults(manifest)
        BY <3>1 DEF TsApplyDefaults, GoApplyDefaults
      <3>3. GoValidate(manifest)
        BY <2>3 DEF GoParse
      <3> QED BY <2>1, <2>3, <3>2, <3>3, ServedIsTheSame
    <2> QED BY <2>2, <2>3 DEF NormalFormsAgree
  <1>2. NormalizeSpec => []Inv
    <2>1. Inv /\ [UNCHANGED manifest]_manifest => Inv'
      OBVIOUS
    <2> QED BY <2>1, PTL DEF NormalizeSpec
  <1>3. Inv => NormalFormsAgree
    BY <1>1
  <1> QED BY <1>2, <1>3, PTL

-----------------------------------------------------------------------------
(* The two verifiers.                                                      *)

\* The segment of a key that survives is one of the header's, with that key.
LEMMA LastOfIsNamed ==
  ASSUME NEW h \in Seq(Segment), NEW k, Named(h, k) # {}
  PROVE  \E i \in Named(h, k) : LastOf(h, k) = h[i]
  <1>1. Named(h, k) \in SUBSET (1..Len(h)) /\ Len(h) \in Nat
    BY DEF Named
  <1>2. Named(h, k) \in SUBSET Nat /\ IsFiniteSet(Named(h, k))
    <2>1. IsFiniteSet(1..Len(h))
      BY FS_Interval
    <2> QED BY <1>1, <2>1, FS_Subset
  <1>3. Max(Named(h, k)) \in Named(h, k)
    BY <1>2, MaxIsIn
  <1> QED BY <1>3 DEF LastOf

\* Two segments of a key are more than one.
LEMMA TwoAreMore ==
  ASSUME NEW h \in Seq(Segment), NEW k, NEW i \in Named(h, k), NEW j \in Named(h, k),
         i # j
  PROVE  Cardinality(Named(h, k)) > 1
  <1>1. IsFiniteSet(1..Len(h)) /\ Named(h, k) \in SUBSET (1..Len(h))
    BY FS_Interval DEF Named
  <1>2. IsFiniteSet(Named(h, k)) /\ Cardinality(Named(h, k)) \in Nat
    BY <1>1, FS_Subset, FS_CardinalityType
  <1> DEFINE one == {i}
             both == one \cup {j}
  <1>3. IsFiniteSet(one) /\ Cardinality(one) = 1
    BY FS_Singleton
  <1>4. j \notin one /\ both \in SUBSET Named(h, k)
    OBVIOUS
  <1> HIDE DEF one
  <1>5. Cardinality(both) = Cardinality(one) + 1
    BY <1>3, <1>4, FS_AddElement
  <1>6. Cardinality(both) <= Cardinality(Named(h, k))
    BY <1>2, <1>4, FS_Subset
  <1> HIDE DEF both
  <1> QED BY <1>2, <1>3, <1>5, <1>6

-----------------------------------------------------------------------------
\* What TypeScript parses, Go parses.
LEMMA TsParsedIsGoParsed ==
  ASSUME NEW h \in Seq(Segment), TsParses(h)
  PROVE  GoParses(h)
  <1>1. Named(h, "v1") # {}
    BY DEF TsParses, LastOf
  <1>2. PICK i \in Named(h, "v1") : LastOf(h, "v1") = h[i]
    BY <1>1, LastOfIsNamed
  <1>3. h[i] \in Range(h) /\ h[i].key = "v1"
    BY DEF Range, Named
  <1>4. LastOf(h, "v1").form = "hex"
    BY <1>2, <1>3 DEF TsParses
  <1> QED BY <1>4 DEF TsParses, GoParses

\* In a header of the common form, what Go parses, TypeScript parses: a
\* signature that is not hex would be the only one, and the last.
LEMMA GoParsedIsTsParsed ==
  ASSUME NEW h \in Seq(Segment), ReadsAlike(h), GoParses(h)
  PROVE  TsParses(h)
  <1>1. \A s \in Range(h) : s.key = "t" => s.form = "plain"
    BY DEF ReadsAlike, GoParses
  <1>2. ASSUME NEW s \in Range(h), s.key = "v1" PROVE s.form = "hex"
    <2>1. PICK i \in Named(h, "v1") : s = h[i]
      BY <1>2 DEF Range, Named
    <2>2. s \in Segment
      BY <2>1 DEF Named
    <2>3. CASE s.form = "nonhex"
      <3>1. s = [key |-> "v1", form |-> "nonhex"]
        BY <1>2, <2>2, <2>3 DEF Segment, Stamp, Mac, Odd
      <3>2. ~(Cardinality(Named(h, "v1")) > 1)
        BY <3>1, <1>2 DEF ReadsAlike
      <3>3. PICK j \in Named(h, "v1") : LastOf(h, "v1") = h[j]
        BY <2>1, LastOfIsNamed
      <3>4. i = j
        BY <3>2, TwoAreMore
      <3> QED BY <2>1, <2>3, <3>3, <3>4 DEF GoParses
    <2>4. s.form # "short"
      BY <1>2 DEF GoParses
    <2> QED BY <1>2, <2>2, <2>3, <2>4 DEF Segment, Stamp, Mac, Odd
  <1> QED BY <1>1, <1>2 DEF GoParses, TsParses

\* The time of a header that TypeScript parses is one of Times.
LEMMA ParsedTime ==
  ASSUME NEW h \in Seq(Segment), TsParses(h)
  PROVE  LastOf(h, "t").time \in Times
  <1>1. Named(h, "t") # {}
    BY DEF TsParses, LastOf
  <1>2. PICK i \in Named(h, "t") : LastOf(h, "t") = h[i]
    BY <1>1, LastOfIsNamed
  <1>3. h[i] \in Range(h) /\ h[i].key = "t" /\ h[i] \in Segment
    BY DEF Range, Named
  <1>4. h[i].form = "plain"
    BY <1>3 DEF TsParses
  <1> QED BY <1>2, <1>3, <1>4 DEF Segment, Stamp, Mac, Odd

\* "The 35 vectors [are] the authoritative correctness contract"
\* (concepts/auth.md:146), for every header of any length, any secrets, times,
\* window and default window, and not only those of the vectors.  When the
\* time of the call is not given as 0: on a header in the common form, with
\* whatever segments repeated, Go and TypeScript give one verdict and one
\* secret index if the window is not given as 0; on any header and with any
\* window, what TypeScript accepts Go accepts with the same secret.
THEOREM VerifiersAlwaysAgree ==
  ASSUME header \in Seq(Segment)
  PROVE  VerifiersAgree
  <1> SUFFICES ASSUME NEW secrets \in Accepted, NEW call \in Calls, call.now # 0
               PROVE  LET go == GoVerify(secrets, header, call)
                          ts == TsVerify(secrets, header, call)
                      IN /\ ReadsAlike(header) /\ call.skew # 0 => go = ts
                         /\ ts.verdict = "ok" => go = ts
    BY DEF VerifiersAgree
  <1>1. /\ call.now \in Nat \cup {Absent} /\ call.clock \in Nat
        /\ call.skew \in Nat \cup {Absent} /\ DefaultSkew \in Nat /\ 0 # Absent
    <2>1. /\ \A n \in Times : n \in Nat
          /\ DefaultSkew \in Nat /\ 0 # Absent /\ call \in Call
      BY SigningAssumption DEF SigningAssumption
    <2> QED BY <2>1 DEF Call
  <1>2. CASE TsParses(header)
    <2> DEFINE t == LastOf(header, "t")
               d == Distance(IF call.now = Absent THEN call.clock ELSE call.now, t.time)
               window == IF call.skew = Absent THEN DefaultSkew ELSE call.skew
               goWindow == IF call.skew \in {0, Absent} THEN DefaultSkew ELSE call.skew
               found == FirstMatch(secrets, t.time, LastOf(header, "v1"))
    <2>1. t.time \in Nat
      BY <1>2, ParsedTime, SigningAssumption DEF SigningAssumption
    <2>2. d \in Nat
      BY <1>1, <2>1 DEF Distance
    <2>3. GoParses(header)
      BY <1>2, TsParsedIsGoParsed
    <2>4. GoVerify(secrets, header, call) =
            IF secrets = <<>> THEN Malformed ELSE IF d > goWindow THEN Stale ELSE found
      BY <2>3 DEF GoVerify
    <2>5. TsVerify(secrets, header, call) =
            IF secrets = <<>> THEN Malformed ELSE IF d > window THEN Stale ELSE found
      BY <1>2 DEF TsVerify, IsStale
    <2>6. /\ call.skew # 0 => goWindow = window
          /\ d <= window => d <= goWindow
      BY <1>1, <2>2
    <2>7. goWindow \in Nat /\ window \in Nat
      BY <1>1
    <2> HIDE DEF d, window, goWindow, found
    <2> QED BY <2>2, <2>4, <2>5, <2>6, <2>7 DEF Stale, Malformed
  <1>3. CASE ~TsParses(header)
    <2>1. TsVerify(secrets, header, call) = Malformed
      BY <1>3 DEF TsVerify
    <2>2. ReadsAlike(header) => GoVerify(secrets, header, call) = Malformed
      BY <1>3, GoParsedIsTsParsed DEF GoVerify
    <2> QED BY <2>1, <2>2 DEF Malformed
  <1> QED BY <1>2, <1>3

-----------------------------------------------------------------------------
(* The report of global-status.                                            *)

Worker ==
  [pc : {"none", "query", "append", "collected", "freed", "done"},
   answer : Answer \cup {"none"}]

ARow == [entry : Entry, answer : Answer \cup {"none"}]
Rows == Seq(ARow)

\* The goroutines whose row is in the list.
Collected == {e \in Entry : worker[e].pc \in {"collected", "freed", "done"}}

StatusShape ==
  /\ filter \in SUBSET Entry /\ parallel \in Parallels
  /\ loop \in 1..(Backends + 1) /\ main \in {"loop", "done"}
  /\ worker \in [Entry -> Worker]
  /\ results \in Rows

\* A goroutine has a slot from its start to its deferred receive.
SlotsAreTaken ==
  /\ slots = Working
  /\ Cardinality(slots) <= AtLeastOne(parallel)

\* The loop has started a goroutine for each chosen backend that it has passed.
StartedInOrder ==
  \A e \in Entry : worker[e].pc # "none" <=> e \in filter /\ e < loop

\* The rows are those of the goroutines past their append, one of each.
OneRowEach ==
  /\ \A i \in DOMAIN results :
       results[i].entry \in Collected /\ results[i] = Row(results[i].entry)
  /\ \A i, j \in DOMAIN results : results[i].entry = results[j].entry => i = j
  /\ \A e \in Collected : \E i \in DOMAIN results : results[i].entry = e

\* After the wait every goroutine is done and the rows are sorted.
AllAreDone ==
  main = "done" =>
    /\ loop = Backends + 1
    /\ \A e \in Entry : worker[e].pc \in {"none", "done"}
    /\ \A i \in DOMAIN results : i > 1 => results[i - 1].entry < results[i].entry

StatusInv ==
  /\ StatusShape /\ SlotsAreTaken /\ StartedInOrder
  /\ OneRowEach /\ AllAreDone

-----------------------------------------------------------------------------
LEMMA RowsAre ==
  ASSUME StatusAssumption, NEW rows \in Rows
  PROVE  /\ Len(rows) \in Nat /\ DOMAIN rows = 1..Len(rows)
         /\ \A i \in 1..Len(rows) : rows[i] \in ARow
         /\ \A i \in 1..Len(rows) : rows[i].entry \in Nat
  <1>1. /\ Len(rows) \in Nat /\ DOMAIN rows = 1..Len(rows)
        /\ \A i \in 1..Len(rows) : rows[i] \in ARow
    BY DEF Rows
  <1>2. \A row \in ARow : row.entry \in Nat
    BY DEF ARow, Entry, StatusAssumption
  <1> QED BY <1>1, <1>2

LEMMA UpToCounts ==
  ASSUME StatusAssumption, NEW rows \in Rows, NEW i \in 1..Len(rows)
  PROVE  /\ UpTo(rows, i) \in SUBSET (1..Len(rows)) /\ IsFiniteSet(UpTo(rows, i))
         /\ Cardinality(UpTo(rows, i)) \in 1..Len(rows)
  <1> DEFINE D == 1..Len(rows)
  <1>1. IsFiniteSet(D) /\ Cardinality(D) = Len(rows)
    BY RowsAre, FS_Interval
  <1>2. UpTo(rows, i) \in SUBSET D /\ i \in UpTo(rows, i)
    BY RowsAre DEF UpTo
  <1> HIDE DEF D
  <1>3. /\ IsFiniteSet(UpTo(rows, i)) /\ Cardinality(UpTo(rows, i)) \in Nat
        /\ Cardinality(UpTo(rows, i)) <= Cardinality(D)
    BY <1>1, <1>2, FS_Subset, FS_CardinalityType
  <1>4. Cardinality(UpTo(rows, i)) # 0
    BY <1>2, <1>3, FS_EmptySet
  <1> QED BY <1>1, <1>2, <1>3, <1>4, RowsAre DEF D

LEMMA UpToGrows ==
  ASSUME StatusAssumption, NEW rows \in Rows,
         NEW i \in 1..Len(rows), NEW j \in 1..Len(rows),
         rows[i].entry < rows[j].entry
  PROVE  Cardinality(UpTo(rows, i)) < Cardinality(UpTo(rows, j))
  <1>1. \A k \in 1..Len(rows) : rows[k].entry \in Nat
    BY RowsAre
  <1>2. UpTo(rows, i) \in SUBSET UpTo(rows, j)
    BY <1>1, RowsAre DEF UpTo
  <1>3. j \in UpTo(rows, j) /\ j \notin UpTo(rows, i)
    BY <1>1, RowsAre DEF UpTo
  <1>4. /\ Cardinality(UpTo(rows, i)) <= Cardinality(UpTo(rows, j))
        /\ Cardinality(UpTo(rows, i)) # Cardinality(UpTo(rows, j))
    BY <1>2, <1>3, UpToCounts, FS_Subset
  <1> QED BY <1>4, UpToCounts

\* The sort is a permutation of the rows that puts them in the order of the
\* config.
LEMMA SortedRows ==
  ASSUME StatusAssumption, NEW rows \in Rows,
         \A i, j \in 1..Len(rows) : rows[i].entry = rows[j].entry => i = j
  PROVE  /\ Sorted(rows) \in Rows /\ Len(Sorted(rows)) = Len(rows)
         /\ \E place \in Bijection(1..Len(rows), 1..Len(rows)) :
              \A i \in 1..Len(rows) : Sorted(rows)[place[i]] = rows[i]
         /\ \A n \in 1..Len(rows) :
              n > 1 => Sorted(rows)[n - 1].entry < Sorted(rows)[n].entry
  <1> DEFINE D == 1..Len(rows)
             place == [i \in D |-> Cardinality(UpTo(rows, i))]
  <1>1. /\ DOMAIN rows = D /\ Len(rows) \in Nat
        /\ \A i \in D : rows[i] \in ARow
    BY RowsAre
  <1>2. place \in [D -> D]
    BY UpToCounts
  <1>3. \A i, j \in D : rows[i].entry < rows[j].entry => place[i] < place[j]
    BY UpToGrows
  <1>4. \A i \in D : rows[i].entry \in Nat
    BY RowsAre
  <1> HIDE DEF place
  <1>5. \A i, j \in D : place[i] = place[j] => i = j
    <2> SUFFICES ASSUME NEW i \in D, NEW j \in D, place[i] = place[j] PROVE i = j
      OBVIOUS
    <2>1. place[i] \in Nat
      BY <1>2
    <2>2. ~(rows[i].entry < rows[j].entry) /\ ~(rows[j].entry < rows[i].entry)
      BY <1>3, <2>1
    <2> QED BY <1>4, <2>2
  <1>6. place \in Injection(D, D)
    BY <1>2, <1>5 DEF Injection, IsInjective
  <1>7. IsFiniteSet(D)
    BY <1>1, FS_Interval
  <1>8. place \in Surjection(D, D)
    <2> HIDE DEF D
    <2> QED BY <1>6, <1>7, FS_Injection
  <1>9. \A n \in D : \E i \in D : place[i] = n
    BY <1>8 DEF Surjection
  <1>10. \A i \in D : Sorted(rows)[place[i]] = rows[i]
    <2> SUFFICES ASSUME NEW i \in D PROVE Sorted(rows)[place[i]] = rows[i]
      OBVIOUS
    <2>1. i = CHOOSE k \in D : Cardinality(UpTo(rows, k)) = place[i]
      BY <1>5 DEF place
    <2> QED BY <1>1, <1>2, <2>1 DEF Sorted
  <1>11. DOMAIN Sorted(rows) = D
    BY <1>1 DEF Sorted
  <1>12. ASSUME NEW n \in D PROVE Sorted(rows)[n] \in ARow
    <2>1. PICK i \in D : place[i] = n
      BY <1>9
    <2> QED BY <1>1, <1>10, <2>1
  <1>13. Sorted(rows) \in Rows /\ Len(Sorted(rows)) = Len(rows)
    <2>1. Sorted(rows) = [n \in 1..Len(rows) |-> Sorted(rows)[n]]
      BY <1>1 DEF Sorted
    <2> QED BY <1>1, <1>12, <2>1 DEF Rows
  <1>14. ASSUME NEW n \in D, n > 1
         PROVE  Sorted(rows)[n - 1].entry < Sorted(rows)[n].entry
    <2>1. n - 1 \in D
      BY <1>1, <1>14
    <2>2. PICK i \in D : place[i] = n - 1
      BY <1>9, <2>1
    <2>3. PICK j \in D : place[j] = n
      BY <1>9
    <2>4. ~(rows[j].entry < rows[i].entry)
      BY <1>1, <1>3, <2>2, <2>3
    <2>5. rows[i].entry # rows[j].entry
      BY <1>1, <2>2, <2>3
    <2> QED BY <1>4, <1>10, <2>2, <2>3, <2>4, <2>5
  <1>15. place \in Bijection(D, D)
    BY <1>6, <1>8 DEF Bijection
  <1> QED BY <1>10, <1>13, <1>14, <1>15

-----------------------------------------------------------------------------
LEMMA StatusStarts == ASSUME StatusAssumption, StatusInit PROVE StatusInv
  <1>1. StatusShape
    BY DEF StatusAssumption, StatusInit, StatusShape, Idle, Worker, Answer, Rows, Entry
  <1>2. Working = {} /\ Collected = {}
    BY DEF StatusInit, Working, Collected, Idle
  <1>3. SlotsAreTaken
    BY <1>2, FS_EmptySet DEF StatusAssumption, StatusInit, SlotsAreTaken, AtLeastOne
  <1>4. StartedInOrder /\ AllAreDone
    BY DEF StatusInit, StartedInOrder, AllAreDone, Idle, Entry
  <1>5. OneRowEach
    BY <1>2 DEF StatusInit, OneRowEach
  <1> QED BY <1>1, <1>3, <1>4, <1>5 DEF StatusInv

LEMMA StatusCases ==
  ASSUME StatusNext
  PROVE  \/ Skip \/ Start \/ Report
         \/ \E e \in Entry : \/ \E answer \in Answer : Query(e, answer)
                            \/ Collect(e) \/ Free(e) \/ Finish(e)
  BY DEF StatusNext, Work

\* A goroutine moves on, and the others stay where they are.
LEMMA WorkerMoves ==
  ASSUME worker \in [Entry -> Worker], NEW e \in Entry,
         NEW pc \in {"none", "query", "append", "collected", "freed", "done"},
         Goes(e, pc)
  PROVE  /\ worker' \in [Entry -> Worker]
         /\ worker'[e].pc = pc /\ worker'[e].answer = worker[e].answer
         /\ \A d \in Entry : d # e => worker'[d] = worker[d]
  BY DEF Goes, Worker

LEMMA Answered ==
  ASSUME worker \in [Entry -> Worker], NEW e \in Entry, NEW answer \in Answer,
         Query(e, answer)
  PROVE  /\ worker' \in [Entry -> Worker]
         /\ worker[e].pc = "query" /\ worker'[e].pc = "append"
         /\ \A d \in Entry : d # e => worker'[d] = worker[d]
  BY DEF Query, Worker

LEMMA StatusTypes ==
  ASSUME StatusAssumption, StatusInv, [StatusNext]_statusVars
  PROVE  StatusShape'
  <1> USE DEF StatusInv, StatusShape
  <1>1. CASE Skip
    BY <1>1 DEF Skip, Entry, StatusAssumption
  <1>2. CASE Start
    <2>1. loop \in Entry
      BY <1>2 DEF Start
    <2> QED BY <1>2, <2>1, WorkerMoves DEF Start, Entry, StatusAssumption
  <1>3. CASE Report
    <2>1. results' \in Rows
      BY <1>3, SortedRows, RowsAre DEF Report, OneRowEach
    <2> QED BY <1>3, <2>1 DEF Report
  <1>4. ASSUME NEW e \in Entry, NEW answer \in Answer, Query(e, answer)
        PROVE  StatusShape'
    BY <1>4, Answered DEF Query
  <1>5. ASSUME NEW e \in Entry, Collect(e) PROVE StatusShape'
    <2>1. Row(e) \in ARow
      BY DEF Row, ARow, Worker
    <2>2. results' \in Rows
      BY <1>5, <2>1 DEF Collect, Rows
    <2> QED BY <1>5, <2>2, WorkerMoves DEF Collect
  <1>6. ASSUME NEW e \in Entry, Free(e) PROVE StatusShape'
    BY <1>6, WorkerMoves DEF Free
  <1>7. ASSUME NEW e \in Entry, Finish(e) PROVE StatusShape'
    BY <1>7, WorkerMoves DEF Finish
  <1>8. CASE UNCHANGED statusVars
    BY <1>8 DEF statusVars
  <1> QED BY <1>1, <1>2, <1>3, <1>4, <1>5, <1>6, <1>7, <1>8, StatusCases

\* A goroutine is at work exactly while it has a slot.
LEMMA StatusSlots ==
  ASSUME StatusAssumption, StatusInv, [StatusNext]_statusVars
  PROVE  SlotsAreTaken'
  <1> USE DEF StatusInv, StatusShape, SlotsAreTaken
  <1>1. CASE Skip
    BY <1>1 DEF Skip, Working, Entry
  <1>2. CASE Start
    <2>1. loop \in Entry /\ slots' = slots \cup {loop} /\ parallel' = parallel
      BY <1>2 DEF Start
    <2>2. Working' = Working \cup {loop}
      BY <1>2, <2>1, WorkerMoves DEF Start, Working
    <2>3. loop \notin slots
      BY <2>1 DEF Working, StartedInOrder, Entry, StatusAssumption
    <2>4. IsFiniteSet(slots) /\ Cardinality(slots) \in Nat
      <3>1. slots \in SUBSET Entry /\ IsFiniteSet(Entry)
        BY FS_Interval DEF Working, Entry, StatusAssumption
      <3> QED BY <3>1, FS_Subset, FS_CardinalityType
    <2>5. Cardinality(slots') = Cardinality(slots) + 1
      BY <2>1, <2>3, <2>4, FS_AddElement
    <2>6. Cardinality(slots) < AtLeastOne(parallel) /\ AtLeastOne(parallel) \in Int
      BY <1>2 DEF Start, AtLeastOne, StatusAssumption
    <2> QED BY <2>1, <2>2, <2>4, <2>5, <2>6 DEF AtLeastOne
  <1>3. CASE Report
    BY <1>3 DEF Report, Working
  <1>4. ASSUME NEW e \in Entry, NEW answer \in Answer, Query(e, answer)
        PROVE  SlotsAreTaken'
    BY <1>4, Answered DEF Query, Working
  <1>5. ASSUME NEW e \in Entry, Collect(e) PROVE SlotsAreTaken'
    BY <1>5, WorkerMoves DEF Collect, Working
  <1>6. ASSUME NEW e \in Entry, Free(e) PROVE SlotsAreTaken'
    <2>1. slots' = slots \ {e} /\ parallel' = parallel
      BY <1>6 DEF Free
    <2>2. Working' = Working \ {e}
      BY <1>6, WorkerMoves DEF Free, Working
    <2>3. slots \in SUBSET Entry /\ IsFiniteSet(Entry)
      BY FS_Interval DEF Working, Entry, StatusAssumption
    <2>4. IsFiniteSet(slots) /\ Cardinality(slots) \in Nat
      BY <2>3, FS_Subset, FS_CardinalityType
    <2>5. Cardinality(slots') <= Cardinality(slots) /\ Cardinality(slots') \in Nat
      BY <2>1, <2>4, FS_Subset, FS_CardinalityType
    <2> QED BY <2>1, <2>2, <2>4, <2>5 DEF AtLeastOne, StatusAssumption
  <1>7. ASSUME NEW e \in Entry, Finish(e) PROVE SlotsAreTaken'
    BY <1>7, WorkerMoves DEF Finish, Working
  <1>8. CASE UNCHANGED statusVars
    BY <1>8 DEF statusVars, Working
  <1> QED BY <1>1, <1>2, <1>3, <1>4, <1>5, <1>6, <1>7, <1>8, StatusCases

LEMMA StatusStarted ==
  ASSUME StatusAssumption, StatusInv, [StatusNext]_statusVars
  PROVE  StartedInOrder'
  <1> USE DEF StatusInv, StatusShape, StartedInOrder
  <1>1. CASE Skip
    BY <1>1 DEF Skip, Entry, StatusAssumption
  <1>2. CASE Start
    BY <1>2, WorkerMoves DEF Start, Entry, StatusAssumption
  <1>3. CASE Report
    BY <1>3 DEF Report
  <1>4. ASSUME NEW e \in Entry, NEW answer \in Answer, Query(e, answer)
        PROVE  StartedInOrder'
    BY <1>4, Answered DEF Query
  <1>5. ASSUME NEW e \in Entry, Collect(e) PROVE StartedInOrder'
    BY <1>5, WorkerMoves DEF Collect
  <1>6. ASSUME NEW e \in Entry, Free(e) PROVE StartedInOrder'
    BY <1>6, WorkerMoves DEF Free
  <1>7. ASSUME NEW e \in Entry, Finish(e) PROVE StartedInOrder'
    BY <1>7, WorkerMoves DEF Finish
  <1>8. CASE UNCHANGED statusVars
    BY <1>8 DEF statusVars
  <1> QED BY <1>1, <1>2, <1>3, <1>4, <1>5, <1>6, <1>7, <1>8, StatusCases

\* Whatever else a goroutine does, its row is in the list from its append on.
LEMMA RowsStay ==
  ASSUME StatusInv, UNCHANGED results,
         \A d \in Entry : \/ worker'[d] = worker[d]
                          \/ /\ d \in Collected /\ worker'[d].answer = worker[d].answer
                             /\ worker'[d].pc \in {"collected", "freed", "done"}
                          \/ /\ d \notin Collected
                             /\ worker'[d].pc \notin {"collected", "freed", "done"}
  PROVE  OneRowEach'
  <1>1. Collected' = Collected
    BY DEF Collected
  <1>2. \A e \in Collected : Row(e)' = Row(e)
    BY DEF Collected, Row
  <1> QED BY <1>1, <1>2 DEF StatusInv, OneRowEach

LEMMA StatusRows ==
  ASSUME StatusAssumption, StatusInv, [StatusNext]_statusVars
  PROVE  OneRowEach'
  <1> USE DEF StatusInv, StatusShape
  <1>1. CASE Skip
    BY <1>1, RowsStay DEF Skip
  <1>2. CASE Start
    <2>1. loop \in Entry /\ worker[loop].pc = "none"
      BY <1>2 DEF Start, StartedInOrder, Entry, StatusAssumption
    <2>2. loop \notin Collected
      BY <2>1 DEF Collected
    <2> QED BY <1>2, <2>1, <2>2, WorkerMoves, RowsStay DEF Start
  <1>3. CASE Report
    <2>1. Collected' = Collected /\ worker' = worker
      BY <1>3 DEF Report, Collected
    <2>2. results' = Sorted(results) /\ DOMAIN results = 1..Len(results)
      BY <1>3, RowsAre DEF Report
    <2>3. /\ results' \in Rows /\ Len(results') = Len(results)
          /\ \E place \in Bijection(1..Len(results), 1..Len(results)) :
               \A i \in 1..Len(results) : results'[place[i]] = results[i]
      BY <2>2, SortedRows, SMTT(30) DEF OneRowEach
    <2>4. PICK place \in Bijection(1..Len(results), 1..Len(results)) :
            \A i \in 1..Len(results) : results'[place[i]] = results[i]
      BY <2>3
    <2>5. \A n \in DOMAIN results' : \E i \in DOMAIN results : n = place[i]
      BY <2>2, <2>3, RowsAre DEF Bijection, Surjection
    <2>6. \A i \in DOMAIN results : place[i] \in DOMAIN results'
      BY <2>2, <2>3, RowsAre DEF Bijection, Surjection
    <2>7. ASSUME NEW n \in DOMAIN results'
          PROVE  /\ results'[n].entry \in Collected
                 /\ results'[n] = Row(results'[n].entry)
      BY <2>2, <2>4, <2>5 DEF OneRowEach
    <2>8. \A n, k \in DOMAIN results' : results'[n].entry = results'[k].entry => n = k
      BY <2>2, <2>4, <2>5 DEF OneRowEach
    <2>9. \A e \in Collected : \E n \in DOMAIN results' : results'[n].entry = e
      BY <2>2, <2>4, <2>6 DEF OneRowEach
    <2> QED BY <2>1, <2>7, <2>8, <2>9 DEF OneRowEach, Row
  <1>4. ASSUME NEW e \in Entry, NEW answer \in Answer, Query(e, answer)
        PROVE  OneRowEach'
    <2>1. e \notin Collected
      BY <1>4, Answered DEF Collected
    <2> QED BY <1>4, <2>1, Answered, RowsStay DEF Query
  <1>5. ASSUME NEW e \in Entry, Collect(e) PROVE OneRowEach'
    <2>1. Collected' = Collected \cup {e} /\ e \notin Collected
      BY <1>5, WorkerMoves DEF Collect, Collected
    <2>2. \A d \in Entry : worker'[d].answer = worker[d].answer
      BY <1>5, WorkerMoves DEF Collect
    <2>3. Row(e) \in ARow /\ Row(e).entry = e
      BY DEF Row, ARow, Worker
    <2>4. results' = Append(results, Row(e))
      BY <1>5 DEF Collect
    <2>5. /\ DOMAIN results' = 1..(Len(results) + 1)
          /\ \A i \in 1..Len(results) : results'[i] = results[i]
          /\ results'[Len(results) + 1] = Row(e)
          /\ DOMAIN results = 1..Len(results) /\ Len(results) \in Nat
      BY <2>3, <2>4, RowsAre DEF Rows
    <2>6. \A i \in DOMAIN results : results[i].entry \in Collected
      BY DEF OneRowEach
    <2>7. \A i \in DOMAIN results' :
            \/ i \in DOMAIN results
            \/ i = Len(results) + 1
      BY <2>5
    <2>8. ASSUME NEW i \in DOMAIN results'
          PROVE  /\ results'[i].entry \in Collected'
                 /\ results'[i] = [entry |-> results'[i].entry,
                                   answer |-> worker'[results'[i].entry].answer]
      <3>1. CASE i \in DOMAIN results
        <4>1. /\ results'[i] = results[i] /\ results[i].entry \in Collected
              /\ results[i] = Row(results[i].entry)
          BY <2>5, <3>1 DEF OneRowEach
        <4> QED BY <2>1, <2>2, <4>1 DEF Row, Collected
      <3>2. CASE i = Len(results) + 1
        BY <2>1, <2>2, <2>3, <2>5, <3>2 DEF Row
      <3> QED BY <2>7, <3>1, <3>2
    <2>9. \A i, j \in DOMAIN results' : results'[i].entry = results'[j].entry => i = j
      BY <2>1, <2>3, <2>5, <2>6, <2>7 DEF OneRowEach
    <2>10. \A d \in Collected' : \E i \in DOMAIN results' : results'[i].entry = d
      BY <2>1, <2>3, <2>5 DEF OneRowEach
    <2> QED BY <2>8, <2>9, <2>10 DEF OneRowEach, Row
  <1>6. ASSUME NEW e \in Entry, Free(e) PROVE OneRowEach'
    BY <1>6, WorkerMoves, RowsStay DEF Free, Collected
  <1>7. ASSUME NEW e \in Entry, Finish(e) PROVE OneRowEach'
    BY <1>7, WorkerMoves, RowsStay DEF Finish, Collected
  <1>8. CASE UNCHANGED statusVars
    BY <1>8, RowsStay DEF statusVars
  <1> QED BY <1>1, <1>2, <1>3, <1>4, <1>5, <1>6, <1>7, <1>8, StatusCases

\* After the report nothing moves any more.
LEMMA StatusDone ==
  ASSUME StatusAssumption, StatusInv, [StatusNext]_statusVars
  PROVE  AllAreDone'
  <1> USE DEF StatusInv, StatusShape, AllAreDone
  <1>1. CASE Skip \/ Start
    BY <1>1 DEF Skip, Start
  <1>2. CASE Report
    <2>1. loop' = Backends + 1 /\ worker' = worker
      BY <1>2 DEF Report, StatusAssumption
    <2>2. results' = Sorted(results) /\ DOMAIN results = 1..Len(results)
      BY <1>2, RowsAre DEF Report
    <2>3. /\ results' \in Rows /\ Len(results') = Len(results)
          /\ \A n \in 1..Len(results) :
               n > 1 => results'[n - 1].entry < results'[n].entry
      BY <2>2, SortedRows, SMTT(30) DEF OneRowEach
    <2>4. DOMAIN results' = 1..Len(results)
      BY <2>3 DEF Rows
    <2> QED BY <1>2, <2>1, <2>3, <2>4 DEF Report
  <1>3. ASSUME NEW e \in Entry, NEW answer \in Answer, Query(e, answer)
        PROVE  AllAreDone'
    BY <1>3 DEF Query
  <1>4. ASSUME NEW e \in Entry, Collect(e) \/ Free(e) \/ Finish(e)
        PROVE  AllAreDone'
    BY <1>4 DEF Collect, Free, Finish
  <1>5. CASE UNCHANGED statusVars
    BY <1>5 DEF statusVars
  <1> QED BY <1>1, <1>2, <1>3, <1>4, <1>5, StatusCases

LEMMA StatusInvariant ==
  ASSUME StatusAssumption
  PROVE  StatusSpec => []StatusInv
  <1>1. StatusInit => StatusInv
    BY StatusStarts
  <1>2. StatusInv /\ [StatusNext]_statusVars => StatusInv'
    BY StatusTypes, StatusSlots, StatusStarted, StatusRows, StatusDone DEF StatusInv
  <1> QED BY <1>1, <1>2, PTL DEF StatusSpec

-----------------------------------------------------------------------------
\* "concurrent backend queries" (the help of --parallel): for any number of
\* backends and any --parallel, zero and negative ones too, no more queries are
\* at work than --parallel says, and each of them has a slot.
THEOREM StatusTypeCorrect ==
  ASSUME StatusAssumption
  PROVE  StatusSpec => []StatusTypeOK
  <1>1. StatusInv => StatusTypeOK
    BY DEF StatusInv, StatusShape, SlotsAreTaken, StatusTypeOK
  <1> QED BY <1>1, StatusInvariant, PTL

\* The report of any number of backends has every chosen one once, in the order
\* of the config, with the answer of its own query, however the goroutines
\* interleave.
THEOREM ReportIsComplete ==
  ASSUME StatusAssumption
  PROVE  StatusSpec => []ReportComplete
  <1>1. StatusInv => ReportComplete
    <2> SUFFICES ASSUME StatusInv, main = "done" PROVE ReportComplete
      BY DEF ReportComplete
    <2> USE DEF StatusInv, StatusShape
    <2>1. Collected = filter
      <3>1. \A e \in Entry : e < Backends + 1
        BY DEF Entry, StatusAssumption
      <3>2. \A e \in Entry : e \in Collected <=> worker[e].pc # "none"
        BY DEF AllAreDone, Collected
      <3> QED BY <3>1, <3>2 DEF AllAreDone, StartedInOrder, Collected
    <2> DEFINE entry == [i \in 1..Len(results) |-> results[i].entry]
    <2>2. /\ DOMAIN results = 1..Len(results) /\ Len(results) \in Nat
      BY RowsAre
    <2>3. entry \in [1..Len(results) -> filter]
      BY <2>1, <2>2 DEF OneRowEach
    <2>4. \A i, j \in 1..Len(results) : entry[i] = entry[j] => i = j
      BY <2>2 DEF OneRowEach
    <2>5. \A e \in filter : \E i \in 1..Len(results) : entry[i] = e
      BY <2>1, <2>2 DEF OneRowEach
    <2>6. {results[i].entry : i \in DOMAIN results} = filter
      BY <2>2, <2>3, <2>5
    <2> HIDE DEF entry
    <2>7. entry \in Bijection(1..Len(results), filter)
      BY <2>3, <2>4, <2>5 DEF Bijection, Injection, IsInjective, Surjection
    <2>8. Cardinality(filter) = Len(results)
      BY <2>2, <2>7, FS_CountingElements DEF ExistsBijection
    <2> QED BY <2>6, <2>8 DEF ReportComplete, OneRowEach, AllAreDone
  <1> QED BY <1>1, StatusInvariant, PTL

-----------------------------------------------------------------------------
(* Delivery: the attempts of a fire and their answers.                     *)

Ends == {"success", "rejected", "exhausted"}
Shim == [phase : Waiting \cup Ends \cup {"idle"}, attempt : 0..MaxAttempts,
         timer : Nat, signed : Nat, secret : {"old", "new", None}]
State == [stage : Serving \cup {"none", "done"},
          result : HandlerStatus \cup {None}, answer : Nat \cup {None}]

Shapes ==
  /\ clock \in 0..Horizon /\ spec \in Secrets /\ accepted \in Secrets
  /\ job \in [known : BOOLEAN, bound : BOOLEAN, skip : BOOLEAN]
  /\ shim \in [Fire -> Shim] /\ request \in [Request -> State]

\* A shim that waits has sent an attempt, and has one more in a backoff.
Numbered(f) ==
  /\ shim[f].phase = "idle" <=> shim[f].attempt = 0
  /\ shim[f].phase = "backoff" => shim[f].attempt < MaxAttempts

OneWaits ==
  \A f, g \in Fire :
    shim[f].phase \in Waiting /\ shim[g].phase \in Waiting => f = g

SentOnly(r) == request[r].stage = "none" <=> r[2] > shim[r[1]].attempt

DeliveryInv ==
  /\ Shapes /\ OneWaits
  /\ \A f \in Fire : Numbered(f)
  /\ \A r \in Request : SentOnly(r)

-----------------------------------------------------------------------------
\* A shim after an attempt that it was waiting for.
Outcome(s, status, t) ==
  /\ t \in Shim
  /\ t.attempt = s.attempt /\ t.signed = s.signed /\ t.secret = s.secret
  /\ t.phase \in Ends \cup {"backoff"}
  /\ t.phase = "success" <=> status = 200
  /\ t.phase = "backoff" =>
       s.attempt < MaxAttempts /\ t.timer = Pause[s.attempt]

LEMMA AfterAttemptIs ==
  ASSUME DeliveryAssumption, NEW s \in Shim, NEW status \in Nat \cup {None},
         s.phase = "inflight", s.attempt > 0
  PROVE  Outcome(s, status, AfterAttempt(s, status))
  <1> DEFINE ended(phase) == [s EXCEPT !.phase = phase]
             pausing == [s EXCEPT !.phase = "backoff", !.timer = Pause[s.attempt]]
  <1>1. \A phase \in Ends :
          /\ ended(phase) \in Shim /\ ended(phase).phase = phase
          /\ ended(phase).attempt = s.attempt /\ ended(phase).signed = s.signed
          /\ ended(phase).secret = s.secret
    BY DEF Shim
  <1>2. s.attempt < MaxAttempts =>
          /\ pausing \in Shim /\ pausing.phase = "backoff"
          /\ pausing.attempt = s.attempt /\ pausing.signed = s.signed
          /\ pausing.secret = s.secret /\ pausing.timer = Pause[s.attempt]
    <2>1. s.attempt \in 1..MaxAttempts
      BY DEF Shim, DeliveryAssumption
    <2>2. Pause[s.attempt] \in Nat
      BY <2>1 DEF DeliveryAssumption
    <2> QED BY <2>2 DEF Shim, Waiting
  <1>3. CASE status = 200
    <2>1. AfterAttempt(s, status) = ended("success")
      BY <1>3 DEF AfterAttempt
    <2> HIDE DEF ended
    <2> QED BY <1>1, <1>3, <2>1 DEF Ends, Outcome
  <1>4. CASE status # 200
    <2>1. AfterAttempt(s, status) =
            IF status \in 400..499 THEN ended("rejected")
            ELSE IF s.attempt < MaxAttempts THEN pausing ELSE ended("exhausted")
      BY <1>4 DEF AfterAttempt
    <2> HIDE DEF ended, pausing
    <2> QED BY <1>1, <1>2, <1>4, <2>1 DEF Ends, Outcome
  <1> QED BY <1>3, <1>4

\* A shim whose attempt has timed out, or lost its connection.
LEMMA LostAttemptIs ==
  ASSUME DeliveryAssumption, NEW s \in Shim, s.phase = "inflight", s.attempt > 0
  PROVE  /\ AfterAttempt(s, None) \in Shim
         /\ AfterAttempt(s, None).attempt = s.attempt
         /\ AfterAttempt(s, None).signed = s.signed
         /\ AfterAttempt(s, None).secret = s.secret
         /\ AfterAttempt(s, None).phase \in {"rejected", "exhausted", "backoff"}
         /\ AfterAttempt(s, None).phase \in Ends \cup {"backoff"}
         /\ AfterAttempt(s, None).phase = "backoff" =>
              /\ s.attempt < MaxAttempts
              /\ AfterAttempt(s, None).timer = Pause[s.attempt]
  <1>1. PICK lost \in Nat \cup {None} : lost = None
    OBVIOUS
  <1>2. None # 200
    BY DEF DeliveryAssumption
  <1>3. Outcome(s, lost, AfterAttempt(s, lost))
    BY AfterAttemptIs
  <1>4. AfterAttempt(s, lost).phase \in {"rejected", "exhausted", "backoff"}
    BY <1>1, <1>2, <1>3 DEF Ends, Outcome
  <1> QED BY <1>1, <1>3, <1>4 DEF Outcome

\* The request r goes on to another stage, and its shim, if it waits for the
\* answer, may go on too.
LEMMA RequestGoesOn ==
  ASSUME DeliveryAssumption, DeliveryInv, NEW r \in Request,
         request[r].stage \in Serving,
         NEW q \in State, q.stage # "none",
         request' = [request EXCEPT ![r] = q],
         NEW status \in Nat \cup {None},
         \/ shim' = shim
         \/ /\ Awaited(r)
            /\ shim' = [shim EXCEPT ![r[1]] = AfterAttempt(@, status)],
         UNCHANGED <<clock, spec, accepted, job>>
  PROVE  DeliveryInv'
  <1> DEFINE f == r[1]
             t == AfterAttempt(shim[f], status)
  <1>1. f \in Fire /\ r[2] \in 1..MaxAttempts
    BY DEF Request
  <1>2. shim[f] \in Shim
    BY <1>1 DEF DeliveryInv, Shapes
  <1>3. ASSUME Awaited(r)
        PROVE  /\ t \in Shim /\ t.attempt = shim[f].attempt
               /\ shim[f].phase = "inflight" /\ shim[f].attempt > 0
               /\ t.phase \in Ends \cup {"backoff"}
               /\ t.phase = "backoff" => t.attempt < MaxAttempts
    <2>1. shim[f].phase = "inflight" /\ shim[f].attempt > 0
      BY <1>1, <1>3 DEF Awaited, DeliveryAssumption
    <2> DEFINE s == shim[f]
    <2>2. s \in Shim /\ s.phase = "inflight" /\ s.attempt > 0
      BY <1>2, <2>1
    <2> HIDE DEF s
    <2>3. Outcome(s, status, AfterAttempt(s, status))
      BY <2>2, AfterAttemptIs
    <2>4. Outcome(shim[f], status, t)
      BY <2>3 DEF s
    <2> HIDE DEF t
    <2> QED BY <2>1, <2>4 DEF Outcome
  <1> HIDE DEF t
  <1>4. \/ shim' = shim
        \/ Awaited(r) /\ shim' = [shim EXCEPT ![f] = t]
    BY DEF t
  <1>5. Shapes'
    BY <1>1, <1>3, <1>4 DEF DeliveryInv, Shapes
  <1>6. \A g \in Fire : shim'[g].attempt = shim[g].attempt
    BY <1>1, <1>3, <1>4 DEF DeliveryInv, Shapes
  <1>7. \A g \in Fire : shim'[g].phase \in Waiting => shim[g].phase \in Waiting
    BY <1>1, <1>3, <1>4 DEF DeliveryInv, Shapes, Waiting
  <1>8. OneWaits'
    BY <1>7 DEF DeliveryInv, OneWaits
  <1>9. ASSUME NEW g \in Fire PROVE Numbered(g)'
    BY <1>1, <1>3, <1>4, <1>9 DEF DeliveryInv, Shapes, Numbered, Ends
  <1>10. ASSUME NEW x \in Request PROVE SentOnly(x)'
    <2>1. x[1] \in Fire
      BY DEF Request
    <2>2. request'[x].stage = "none" <=> request[x].stage = "none"
      BY DEF DeliveryInv, Shapes, Serving
    <2> QED BY <1>6, <2>1, <2>2 DEF DeliveryInv, SentOnly
  <1> QED BY <1>5, <1>8, <1>9, <1>10 DEF DeliveryInv

\* An attempt goes out, the first one or the one after a backoff.
LEMMA AttemptGoesOut ==
  ASSUME DeliveryAssumption, DeliveryInv, NEW f \in Fire, NEW n \in 1..MaxAttempts,
         n = shim[f].attempt + 1,
         \A g \in Fire : shim[g].phase \in Waiting => g = f,
         NEW s \in Shim, s.attempt = shim[f].attempt, Sends(f, n, s),
         UNCHANGED <<clock, spec, accepted, job>>
  PROVE  DeliveryInv'
  <1> DEFINE t == [s EXCEPT !.phase = "inflight", !.attempt = n, !.timer = Timeout]
             q == [NoRequest EXCEPT !.stage = "arrived"]
  <1>1. t \in Shim /\ t.phase = "inflight" /\ t.attempt = n
    <2>1. n \in 0..MaxAttempts /\ Timeout \in Nat
      BY DEF DeliveryAssumption
    <2> DEFINE u == [s EXCEPT !.phase = "inflight", !.attempt = n]
    <2>2. u \in Shim /\ u.phase = "inflight" /\ u.attempt = n
      BY <2>1 DEF Shim, Waiting
    <2>3. t = [u EXCEPT !.timer = Timeout]
      OBVIOUS
    <2> HIDE DEF u, t
    <2> QED BY <2>1, <2>2, <2>3 DEF Shim
  <1>2. q \in State /\ q.stage = "arrived"
    BY DEF NoRequest, State, Serving
  <1>3. shim' = [shim EXCEPT ![f] = t] /\ request' = [request EXCEPT ![<<f, n>>] = q]
    BY DEF Sends
  <1> HIDE DEF t, q
  <1>4. <<f, n>> \in Request
    BY DEF Request
  <1>5. Shapes'
    BY <1>1, <1>2, <1>3, <1>4 DEF DeliveryInv, Shapes
  <1>6. OneWaits'
    BY <1>3 DEF DeliveryInv, Shapes, OneWaits
  <1>7. ASSUME NEW g \in Fire PROVE Numbered(g)'
    BY <1>1, <1>3 DEF DeliveryInv, Shapes, Numbered
  <1>8. ASSUME NEW x \in Request PROVE SentOnly(x)'
    <2>1. PICK g \in Fire, m \in 1..MaxAttempts : x = <<g, m>>
      BY DEF Request
    <2>2. request[x].stage = "none" <=> m > shim[g].attempt
      BY <2>1 DEF DeliveryInv, SentOnly
    <2>3. CASE g = f
      <3>1. shim'[g].attempt = n
        BY <1>1, <1>3, <2>3 DEF DeliveryInv, Shapes
      <3>2. CASE m = n
        BY <1>2, <1>3, <1>4, <2>1, <2>3, <3>1, <3>2
           DEF DeliveryInv, Shapes, SentOnly
      <3>3. CASE m # n
        <4>1. request'[x] = request[x]
          BY <1>3, <2>1, <3>3 DEF DeliveryInv, Shapes
        <4>2. m > n <=> m > shim[f].attempt
          <5>1. shim[f].attempt \in Nat
            BY DEF DeliveryInv, Shapes, Shim, DeliveryAssumption
          <5> QED BY <3>3, <5>1
        <4> QED BY <2>1, <2>2, <2>3, <3>1, <4>1, <4>2 DEF SentOnly
      <3> QED BY <3>2, <3>3
    <2>4. CASE g # f
      <3>1. shim'[g] = shim[g] /\ request'[x] = request[x]
        BY <1>3, <2>1, <2>4 DEF DeliveryInv, Shapes
      <3> QED BY <2>1, <2>2, <3>1 DEF SentOnly
    <2> QED BY <2>3, <2>4
  <1> QED BY <1>5, <1>6, <1>7, <1>8 DEF DeliveryInv

\* A step of request r in the application: it goes on, and may end the attempt
\* of the shim that waits for it.
Moves(r, q, status) ==
  /\ request[r].stage \in Serving /\ q.stage # "none"
  /\ request' = [request EXCEPT ![r] = q]
  /\ \/ shim' = shim
     \/ /\ Awaited(r)
        /\ shim' = [shim EXCEPT ![r[1]] = AfterAttempt(@, status)]

RequestStep(r) ==
  \/ Verify(r) \/ Dispatch(r) \/ CallHandler(r) \/ Reply(r)
  \/ \E status \in HandlerStatus : HandlerEnds(r, status)

LEMMA RequestMoves ==
  ASSUME DeliveryAssumption, NEW r \in Request, request[r] \in State, RequestStep(r)
  PROVE  \E q \in State, status \in Nat \cup {None} : Moves(r, q, status)
  <1>0. request[r] \in State
    OBVIOUS
  <1>1. ASSUME NEW stage \in Serving, Stage(r, stage),
               request[r].stage \in Serving
        PROVE  \E q \in State, status \in Nat \cup {None} : Moves(r, q, status)
    <2>1. [request[r] EXCEPT !.stage = stage] \in State
      BY <1>0, <1>1 DEF State, Serving
    <2>2. Moves(r, [request[r] EXCEPT !.stage = stage], None)
      BY <1>0, <1>1 DEF Moves, Stage, State, Serving
    <2> QED BY <2>1, <2>2
  <1>2. ASSUME NEW status \in {404, 401}, Settles(r, status),
               request[r].stage \in Serving
        PROVE  \E q \in State, st \in Nat \cup {None} : Moves(r, q, st)
    <2> DEFINE q == [request[r] EXCEPT !.stage = "reporting", !.answer = status]
    <2>1. q \in State /\ q.stage = "reporting"
      <3> DEFINE u == [request[r] EXCEPT !.stage = "reporting"]
      <3>1. u \in State /\ u.stage = "reporting"
        BY <1>0 DEF State, Serving
      <3>2. status \in Nat
        OBVIOUS
      <3>3. q = [u EXCEPT !.answer = status]
        OBVIOUS
      <3> HIDE DEF u, q
      <3> QED BY <3>1, <3>2, <3>3 DEF State
    <2>2. request' = [request EXCEPT ![r] = q] /\ shim' = shim
      BY <1>2 DEF Settles
    <2> QED BY <1>2, <2>1, <2>2 DEF Moves
  <1>3. ASSUME NEW status \in Nat \cup {None}, Answers(r, status),
               request[r].stage \in Serving
        PROVE  \E q \in State, st \in Nat \cup {None} : Moves(r, q, st)
    <2> DEFINE answer == IF Awaited(r) THEN status ELSE None
               q == [request[r] EXCEPT !.stage = "done", !.answer = answer]
    <2>1. q \in State /\ q.stage = "done"
      BY <1>0 DEF State
    <2>2. request' = [request EXCEPT ![r] = q]
      BY <1>3 DEF Answers
    <2>3. \/ shim' = shim
          \/ /\ Awaited(r)
             /\ shim' = [shim EXCEPT ![r[1]] = AfterAttempt(@, status)]
      BY <1>3 DEF Answers
    <2> QED BY <1>3, <2>1, <2>2, <2>3 DEF Moves
  <1>4. ASSUME NEW status \in HandlerStatus, HandlerEnds(r, status)
        PROVE  \E q \in State, st \in Nat \cup {None} : Moves(r, q, st)
    <2> DEFINE q == [request[r] EXCEPT !.stage = "reporting",
                       !.result = status, !.answer = status]
    <2>1. q \in State /\ q.stage = "reporting"
      <3> DEFINE u == [request[r] EXCEPT !.stage = "reporting"]
                 v == [u EXCEPT !.result = status]
      <3>1. u \in State /\ u.stage = "reporting"
        BY <1>0 DEF State, Serving
      <3> HIDE DEF u
      <3>2. v \in State /\ v.stage = "reporting"
        BY <3>1 DEF State
      <3>3. status \in Nat
        BY DEF HandlerStatus
      <3>4. q = [v EXCEPT !.answer = status]
        BY DEF u
      <3> HIDE DEF v, q
      <3> QED BY <3>2, <3>3, <3>4 DEF State
    <2>2. request' = [request EXCEPT ![r] = q] /\ shim' = shim
      BY <1>4 DEF HandlerEnds
    <2>3. request[r].stage \in Serving
      BY <1>4 DEF HandlerEnds, Serving
    <2> QED BY <2>1, <2>2, <2>3 DEF Moves
  <1>5. CASE Verify(r)
    BY <1>1, <1>2, <1>5 DEF Verify, Serving
  <1>6. CASE Dispatch(r)
    BY <1>1, <1>3, <1>6 DEF Dispatch, Serving
  <1>7. CASE CallHandler(r)
    BY <1>1, <1>7 DEF CallHandler, Serving
  <1>8. CASE Reply(r)
    <2>1. request[r].answer \in Nat \cup {None}
      BY <1>0 DEF State
    <2> QED BY <1>3, <1>8, <2>1 DEF Reply, Serving
  <1> QED BY <1>4, <1>5, <1>6, <1>7, <1>8 DEF RequestStep

LEMMA DeliveryStep ==
  ASSUME DeliveryAssumption, DeliveryInv, [DeliveryNext]_deliveryVars
  PROVE  DeliveryInv'
  <1>0. Shapes /\ OneWaits /\ (\A f \in Fire : Numbered(f))
        /\ \A r \in Request : SentOnly(r)
    BY DEF DeliveryInv
  <1>1. ASSUME NEW f \in Fire, Begin(f) PROVE DeliveryInv'
    <2> DEFINE s == [shim[f] EXCEPT !.signed = clock, !.secret = spec[1]]
    <2>1. shim[f] \in Shim /\ clock \in Nat /\ spec[1] \in {"old", "new"}
      BY <1>0 DEF Shapes, Secrets, DeliveryAssumption
    <2>2. s \in Shim /\ s.attempt = shim[f].attempt
      BY <2>1 DEF Shim
    <2>3. Sends(f, 1, s) /\ \A g \in Fire : shim[g].phase \notin Waiting
      BY <1>1 DEF Begin
    <2>4. 1 = shim[f].attempt + 1 /\ 1 \in 1..MaxAttempts
      BY <1>0, <1>1 DEF Begin, Numbered, DeliveryAssumption
    <2> HIDE DEF s
    <2> QED BY <1>1, <2>2, <2>3, <2>4, AttemptGoesOut DEF Begin
  <1>2. ASSUME NEW f \in Fire, Retry(f) PROVE DeliveryInv'
    <2>1. shim[f] \in Shim /\ shim[f].attempt < MaxAttempts
      BY <1>0, <1>2 DEF Shapes, Retry, Numbered
    <2>2. shim[f].attempt + 1 \in 1..MaxAttempts
      BY <2>1 DEF Shim, DeliveryAssumption
    <2>3. \A g \in Fire : shim[g].phase \in Waiting => g = f
      BY <1>0, <1>2 DEF Retry, OneWaits, Waiting
    <2> QED BY <1>2, <2>1, <2>2, <2>3, AttemptGoesOut DEF Retry
  <1>3. ASSUME NEW r \in Request, RequestStep(r)
        PROVE  DeliveryInv'
    <2>1. request[r] \in State
      BY <1>0 DEF Shapes
    <2>2. PICK q \in State, status \in Nat \cup {None} : Moves(r, q, status)
      BY <1>3, <2>1, RequestMoves
    <2>3. UNCHANGED <<clock, spec, accepted, job>>
      BY <1>3 DEF RequestStep, Verify, Dispatch, CallHandler, Reply, HandlerEnds
    <2> QED BY <2>2, <2>3, RequestGoesOn DEF Moves
  <1>4. ASSUME NEW f \in Fire, TimesOut(f) PROVE DeliveryInv'
    <2> DEFINE t == AfterAttempt(shim[f], None)
    <2>1. shim[f] \in Shim /\ shim[f].phase = "inflight" /\ shim[f].attempt > 0
      BY <1>0, <1>4 DEF Shapes, TimesOut, Numbered, Shim, DeliveryAssumption
    <2>2. /\ t \in Shim /\ t.attempt = shim[f].attempt
          /\ t.phase \in Ends \cup {"backoff"}
          /\ t.phase = "backoff" => shim[f].attempt < MaxAttempts
      <3> DEFINE s == shim[f]
      <3>1. s \in Shim /\ s.phase = "inflight" /\ s.attempt > 0
        BY <2>1
      <3> HIDE DEF s
      <3>2. /\ AfterAttempt(s, None) \in Shim
            /\ AfterAttempt(s, None).attempt = s.attempt
            /\ AfterAttempt(s, None).phase \in Ends \cup {"backoff"}
            /\ AfterAttempt(s, None).phase = "backoff" => s.attempt < MaxAttempts
        BY <3>1, LostAttemptIs, Zenon
      <3> QED BY <3>2 DEF s
    <2> HIDE DEF t
    <2>3. /\ shim' = [shim EXCEPT ![f] = t]
          /\ UNCHANGED <<clock, spec, accepted, job, request>>
      BY <1>4 DEF TimesOut, t
    <2>4. Shapes'
      BY <1>0, <2>2, <2>3 DEF Shapes
    <2>5. OneWaits'
      BY <1>0, <2>1, <2>3 DEF Shapes, OneWaits, Waiting
    <2>6. ASSUME NEW g \in Fire PROVE Numbered(g)'
      BY <1>0, <2>1, <2>2, <2>3, <2>6 DEF Shapes, Numbered, Ends
    <2>7. ASSUME NEW r \in Request PROVE SentOnly(r)'
      <3>1. r[1] \in Fire
        BY DEF Request
      <3>2. shim'[r[1]].attempt = shim[r[1]].attempt
        BY <1>0, <2>2, <2>3, <3>1 DEF Shapes
      <3> QED BY <1>0, <2>3, <3>2 DEF SentOnly
    <2> QED BY <2>4, <2>5, <2>6, <2>7 DEF DeliveryInv
  <1>5. CASE Restart
    <2>1. \A f \in Fire :
            /\ shim'[f] \in Shim /\ shim'[f].attempt = shim[f].attempt
            /\ \/ shim'[f] = shim[f]
               \/ /\ shim[f].phase = "inflight"
                  /\ shim'[f].phase \in Ends \cup {"backoff"}
            /\ shim'[f] # shim[f] /\ shim'[f].phase = "backoff" =>
                 shim[f].attempt < MaxAttempts
      <3> SUFFICES ASSUME NEW f \in Fire
                   PROVE /\ shim'[f] \in Shim /\ shim'[f].attempt = shim[f].attempt
                         /\ \/ shim'[f] = shim[f]
                            \/ /\ shim[f].phase = "inflight"
                               /\ shim'[f].phase \in Ends \cup {"backoff"}
                         /\ shim'[f] # shim[f] /\ shim'[f].phase = "backoff" =>
                              shim[f].attempt < MaxAttempts
        OBVIOUS
      <3> DEFINE s == shim[f]
      <3>1. s \in Shim
        BY <1>0 DEF Shapes
      <3>2. shim'[f] = IF s.phase = "inflight" THEN AfterAttempt(s, None) ELSE s
        BY <1>5 DEF Restart
      <3>3. s.phase = "inflight" => s.attempt > 0
        BY <1>0, <3>1 DEF Numbered, Shim, DeliveryAssumption
      <3> HIDE DEF s
      <3>4. s.phase = "inflight" =>
              /\ AfterAttempt(s, None) \in Shim
              /\ AfterAttempt(s, None).attempt = s.attempt
              /\ AfterAttempt(s, None).phase \in Ends \cup {"backoff"}
              /\ AfterAttempt(s, None).phase = "backoff" => s.attempt < MaxAttempts
        BY <3>1, <3>3, LostAttemptIs, Zenon
      <3> QED BY <3>1, <3>2, <3>4 DEF s
    <2>2. \A r \in Request :
            /\ request'[r] \in State
            /\ request'[r].stage = "none" <=> request[r].stage = "none"
      <3> SUFFICES ASSUME NEW r \in Request
                   PROVE /\ request'[r] \in State
                         /\ request'[r].stage = "none" <=> request[r].stage = "none"
        OBVIOUS
      <3> DEFINE q == request[r]
                 u == [q EXCEPT !.stage = "done", !.answer = None]
      <3>1. q \in State
        BY <1>0 DEF Shapes
      <3>2. request'[r] = IF q.stage \in Serving THEN u ELSE q
        BY <1>5 DEF Restart
      <3>3. u \in State /\ u.stage = "done"
        BY <3>1 DEF State
      <3> HIDE DEF q, u
      <3> QED BY <3>1, <3>2, <3>3 DEF Serving, q
    <2>3. /\ job' \in [known : BOOLEAN, bound : BOOLEAN, skip : BOOLEAN]
          /\ UNCHANGED <<clock, spec, accepted>>
      BY <1>5 DEF Restart, Unregistered
    <2>4. shim' \in [Fire -> Shim] /\ request' \in [Request -> State]
      <3>1. shim' = [f \in Fire |-> shim'[f]]
        BY <1>5 DEF Restart
      <3>2. request' = [r \in Request |-> request'[r]]
        BY <1>5 DEF Restart
      <3> QED BY <2>1, <2>2, <3>1, <3>2
    <2>5. Shapes'
      BY <1>0, <2>3, <2>4 DEF Shapes
    <2>6. OneWaits'
      BY <1>0, <2>1 DEF OneWaits, Waiting
    <2>7. ASSUME NEW f \in Fire PROVE Numbered(f)'
      BY <1>0, <2>1 DEF Numbered, Ends
    <2>8. ASSUME NEW r \in Request PROVE SentOnly(r)'
      <3>1. r[1] \in Fire
        BY DEF Request
      <3> QED BY <1>0, <2>1, <2>2, <3>1 DEF SentOnly
    <2> QED BY <2>5, <2>6, <2>7, <2>8 DEF DeliveryInv
  <1>6. CASE \/ \E bound, skip \in BOOLEAN : Register(bound, skip)
             \/ On \/ AddSecret \/ Apply \/ DropSecret
             \/ UNCHANGED deliveryVars
    <2>1. UNCHANGED <<clock, shim, request>>
      BY <1>6 DEF Register, On, AddSecret, Apply, DropSecret, deliveryVars
    <2>2. spec' \in Secrets /\ accepted' \in Secrets
      BY <1>0, <1>6 DEF Shapes, Secrets, Register, On, AddSecret, Apply,
                        DropSecret, deliveryVars
    <2>3. job' \in [known : BOOLEAN, bound : BOOLEAN, skip : BOOLEAN]
      <3>1. CASE \E bound, skip \in BOOLEAN : Register(bound, skip)
        BY <3>1 DEF Register
      <3>2. CASE On
        <4>1. job' = [job EXCEPT !.bound = TRUE]
          BY <3>2 DEF On
        <4> QED BY <1>0, <4>1 DEF Shapes
      <3>3. CASE UNCHANGED job
        BY <1>0, <3>3 DEF Shapes
      <3> QED BY <1>6, <3>1, <3>2, <3>3 DEF AddSecret, Apply, DropSecret,
                                            deliveryVars
    <2>4. Shapes'
      BY <1>0, <2>1, <2>2, <2>3 DEF Shapes
    <2> QED BY <1>0, <2>1, <2>4 DEF DeliveryInv, OneWaits, Numbered, SentOnly
  <1>7. CASE Tick
    <2>1. clock' \in 0..Horizon /\ UNCHANGED <<spec, accepted, job, request>>
      BY <1>0, <1>7 DEF Tick, Shapes, DeliveryAssumption
    <2>2. \A f \in Fire :
            /\ shim'[f] \in Shim /\ shim'[f].attempt = shim[f].attempt
            /\ shim'[f].phase = shim[f].phase
      <3> SUFFICES ASSUME NEW f \in Fire
                   PROVE /\ shim'[f] \in Shim /\ shim'[f].attempt = shim[f].attempt
                         /\ shim'[f].phase = shim[f].phase
        OBVIOUS
      <3> DEFINE s == shim[f]
      <3>1. s \in Shim /\ s.phase \in Waiting => s.timer > 0
        BY <1>0, <1>7 DEF Shapes, Tick
      <3>2. shim'[f] = IF s.phase \in Waiting THEN [s EXCEPT !.timer = @ - 1] ELSE s
        BY <1>7 DEF Tick
      <3>3. s \in Shim
        BY <1>0 DEF Shapes
      <3> HIDE DEF s
      <3>4. s.phase \in Waiting => s.timer - 1 \in Nat
        BY <3>1, <3>3 DEF Shim
      <3> QED BY <3>2, <3>3, <3>4 DEF Shim, s
    <2>3. shim' \in [Fire -> Shim]
      <3>1. shim' = [f \in Fire |-> shim'[f]]
        BY <1>7 DEF Tick
      <3> QED BY <2>2, <3>1
    <2>4. Shapes'
      BY <1>0, <2>1, <2>3 DEF Shapes
    <2>5. ASSUME NEW r \in Request PROVE SentOnly(r)'
      <3>1. r[1] \in Fire
        BY DEF Request
      <3> QED BY <1>0, <2>1, <2>2, <3>1 DEF SentOnly
    <2>6. OneWaits' /\ \A f \in Fire : Numbered(f)'
      BY <1>0, <2>2 DEF OneWaits, Numbered
    <2> QED BY <2>4, <2>5, <2>6 DEF DeliveryInv
  <1> QED BY <1>1, <1>2, <1>3, <1>4, <1>5, <1>6, <1>7 DEF DeliveryNext, RequestStep

-----------------------------------------------------------------------------
LEMMA DeliveryInvariant == DeliveryAssumption => (DeliverySpec => []DeliveryInv)
  <1> SUFFICES ASSUME DeliveryAssumption PROVE DeliverySpec => []DeliveryInv
    OBVIOUS
  <1>1. DeliveryInit => DeliveryInv
    <2> SUFFICES ASSUME DeliveryInit PROVE DeliveryInv
      OBVIOUS
    <2>1. NoShim \in Shim /\ NoRequest \in State
      BY DEF NoShim, NoRequest, Shim, State, DeliveryAssumption
    <2>2. Shapes
      BY <2>1 DEF DeliveryInit, Shapes, Secrets, Unregistered, DeliveryAssumption
    <2>3. OneWaits /\ \A f \in Fire : Numbered(f)
      BY DEF DeliveryInit, OneWaits, Numbered, NoShim, Waiting
    <2>4. ASSUME NEW r \in Request PROVE SentOnly(r)
      BY DEF DeliveryInit, SentOnly, NoShim, NoRequest, Request
    <2> QED BY <2>2, <2>3, <2>4 DEF DeliveryInv
  <1>2. DeliveryInv /\ [DeliveryNext]_deliveryVars => DeliveryInv'
    BY DeliveryStep
  <1> QED BY <1>1, <1>2, PTL DEF DeliverySpec

\* At most one shim of the job waits, no shim sends more attempts than its policy
\* has, and a request has been served exactly if its attempt has been sent.
THEOREM DeliveryTypeCorrect ==
  ASSUME DeliveryAssumption
  PROVE  DeliverySpec => []DeliveryTypeOK
  <1>1. DeliveryInv => DeliveryTypeOK
    <2> SUFFICES ASSUME DeliveryInv PROVE DeliveryTypeOK
      OBVIOUS
    <2>1. \A f \in Fire : shim[f].attempt \in 0..MaxAttempts
      BY DEF DeliveryInv, Shapes, Shim
    <2>2. \A r \in Request : request[r].stage \in Serving \cup {"none", "done"}
      BY DEF DeliveryInv, Shapes, State
    <2> QED BY <2>1, <2>2 DEF DeliveryInv, DeliveryTypeOK, Shapes, OneWaits, SentOnly
  <1> QED BY <1>1, DeliveryInvariant, PTL

-----------------------------------------------------------------------------
\* What a request has to say: nothing before the handler ends, then whether it
\* was ok; and an ok that was heard has ended the fire.
Truthful(r) ==
  LET q == request[r]
  IN  /\ q.stage \notin {"reporting", "done"} => q.result = None
      /\ q.stage = "reporting" =>
           q.answer # None /\ (q.answer = 200 <=> q.result = 200)
      /\ q.stage = "done" /\ q.result = 200 =>
           q.answer = None \/ shim[r[1]].phase = "success"

\* A fire that is a success was told so by its last attempt.
Told(f) ==
  shim[f].phase = "success" =>
    LET q == request[<<f, shim[f].attempt>>]
    IN  q.stage = "done" /\ q.result = 200

HeardInv == (\A r \in Request : Truthful(r)) /\ (\A f \in Fire : Told(f))

\* As long as no request moves and no shim comes to or leaves a success.
LEMMA NothingHeard ==
  ASSUME DeliveryInv, HeardInv, request' = request,
         \A f \in Fire :
           /\ shim'[f].attempt = shim[f].attempt
           /\ shim'[f].phase = "success" <=> shim[f].phase = "success"
  PROVE  HeardInv'
  <1>1. ASSUME NEW r \in Request PROVE Truthful(r)'
    <2>1. r[1] \in Fire
      BY DEF Request
    <2> QED BY <2>1 DEF HeardInv, Truthful
  <1>2. ASSUME NEW f \in Fire PROVE Told(f)'
    BY DEF HeardInv, Told
  <1> QED BY <1>1, <1>2 DEF HeardInv

\* An attempt that goes out has not been heard of.
LEMMA SendsHeard ==
  ASSUME DeliveryAssumption, DeliveryInv, HeardInv,
         NEW f \in Fire, NEW n \in 1..MaxAttempts, NEW s, Sends(f, n, s),
         shim[f].phase \in {"idle", "backoff"}
  PROVE  HeardInv'
  <1>1. shim \in [Fire -> Shim] /\ request \in [Request -> State]
    BY DEF DeliveryInv, Shapes
  <1> DEFINE t == [s EXCEPT !.phase = "inflight", !.attempt = n, !.timer = Timeout]
             q == [NoRequest EXCEPT !.stage = "arrived"]
  <1>2. q.stage = "arrived" /\ q.result = None /\ q.answer = None
    BY DEF NoRequest
  <1>3. shim' = [shim EXCEPT ![f] = t] /\ request' = [request EXCEPT ![<<f, n>>] = q]
    BY DEF Sends
  <1>4. <<f, n>> \in Request
    BY DEF Request
  <1>5. t.phase = "inflight"
    OBVIOUS
  <1> HIDE DEF q, t
  <1>6. ASSUME NEW r \in Request PROVE Truthful(r)'
    <2>1. CASE r = <<f, n>>
      <3>1. request'[r] = q
        BY <1>1, <1>3, <1>4, <2>1
      <3> QED BY <1>2, <3>1 DEF Truthful
    <2>2. CASE r # <<f, n>>
      <3>1. request'[r] = request[r] /\ r[1] \in Fire
        BY <1>1, <1>3, <2>2 DEF Request
      <3>2. shim[r[1]].phase = "success" => shim'[r[1]] = shim[r[1]]
        BY <1>1, <1>3, <3>1
      <3> QED BY <3>1, <3>2 DEF HeardInv, Truthful
    <2> QED BY <2>1, <2>2
  <1>7. ASSUME NEW g \in Fire PROVE Told(g)'
    <2>1. CASE g = f
      <3>1. shim'[g].phase = "inflight"
        BY <1>1, <1>5, <1>3, <2>1
      <3> QED BY <3>1 DEF Told
    <2>2. CASE g # f
      <3>1. shim'[g] = shim[g]
        BY <1>1, <1>3, <2>2
      <3>2. shim[g].attempt \in 1..MaxAttempts =>
              request'[<<g, shim[g].attempt>>] = request[<<g, shim[g].attempt>>]
        BY <1>1, <1>3, <2>2 DEF Request
      <3>3. shim[g].phase = "success" => shim[g].attempt \in 1..MaxAttempts
        BY <1>1 DEF DeliveryInv, Numbered, Shim, DeliveryAssumption
      <3> QED BY <3>1, <3>2, <3>3 DEF HeardInv, Told
    <2> QED BY <2>1, <2>2
  <1> QED BY <1>6, <1>7 DEF HeardInv

\* A request in the application goes on without its shim.
LEMMA ServesHeard ==
  ASSUME DeliveryInv, HeardInv, NEW r \in Request, request[r].stage \in Serving,
         NEW q, request' = [request EXCEPT ![r] = q], shim' = shim,
         q.stage \notin {"reporting", "done"} => q.result = None,
         q.stage = "reporting" =>
           q.answer # None /\ (q.answer = 200 <=> q.result = 200),
         q.stage \in Serving \/ (q.stage = "done" /\ q.answer = None)
  PROVE  HeardInv'
  <1>1. request \in [Request -> State]
    BY DEF DeliveryInv, Shapes
  <1>2. request'[r] = q /\ \A x \in Request : x # r => request'[x] = request[x]
    BY <1>1
  <1>3. ASSUME NEW x \in Request PROVE Truthful(x)'
    <2>1. CASE x = r
      BY <1>2, <2>1 DEF Truthful, Serving
    <2>2. CASE x # r
      BY <1>2, <2>2 DEF HeardInv, Truthful
    <2> QED BY <2>1, <2>2
  <1>4. ASSUME NEW f \in Fire PROVE Told(f)'
    <2> SUFFICES ASSUME shim[f].phase = "success"
                 PROVE  LET y == request'[<<f, shim[f].attempt>>]
                        IN  y.stage = "done" /\ y.result = 200
      BY DEF Told
    <2>1. LET y == request[<<f, shim[f].attempt>>]
          IN  y.stage = "done" /\ y.result = 200
      BY DEF HeardInv, Told
    <2>2. <<f, shim[f].attempt>> # r
      BY <2>1 DEF Serving
    <2>3. request'[<<f, shim[f].attempt>>] = request[<<f, shim[f].attempt>>]
      BY <1>1, <2>2
    <2> QED BY <2>1, <2>3
  <1> QED BY <1>3, <1>4 DEF HeardInv

\* An answer goes out, and the fire is a success if it is 200.
LEMMA AnswersHeard ==
  ASSUME DeliveryAssumption, DeliveryInv, HeardInv, NEW r \in Request,
         request[r].stage \in Serving, NEW status \in Nat, Answers(r, status),
         status = 200 <=> request[r].result = 200
  PROVE  HeardInv'
  <1>1. request \in [Request -> State] /\ shim \in [Fire -> Shim]
    BY DEF DeliveryInv, Shapes
  <1>2. r[1] \in Fire /\ r[2] \in 1..MaxAttempts /\ r = <<r[1], r[2]>>
    BY DEF Request
  <1> DEFINE f == r[1]
             answer == IF Awaited(r) THEN status ELSE None
             q == [request[r] EXCEPT !.stage = "done", !.answer = answer]
             t == AfterAttempt(shim[f], status)
  <1>3. q.stage = "done" /\ q.answer = answer /\ q.result = request[r].result
    BY <1>1 DEF State
  <1>4. request' = [request EXCEPT ![r] = q]
    BY DEF Answers
  <1>5. CASE ~Awaited(r)
    <2>1. shim' = shim /\ q.answer = None
      BY <1>3, <1>5 DEF Answers
    <2> HIDE DEF q
    <2> QED BY <1>3, <1>4, <2>1, ServesHeard
  <1>6. CASE Awaited(r)
    <2>1. shim[f] \in Shim /\ shim[f].phase = "inflight"
          /\ shim[f].attempt = r[2] /\ shim[f].attempt > 0
      BY <1>1, <1>2, <1>6 DEF Awaited
    <2>2. /\ t.attempt = r[2]
          /\ t.phase = "success" <=> status = 200
      <3> DEFINE s == shim[f]
      <3>1. s \in Shim /\ s.phase = "inflight" /\ s.attempt > 0 /\ s.attempt = r[2]
        BY <2>1
      <3> HIDE DEF s
      <3>2. PICK st \in Nat \cup {None} : st = status
        OBVIOUS
      <3>3. /\ AfterAttempt(s, st).attempt = s.attempt
            /\ AfterAttempt(s, st).phase = "success" <=> st = 200
        <4>1. Outcome(s, st, AfterAttempt(s, st))
          BY <3>1, AfterAttemptIs
        <4> QED BY <4>1 DEF Outcome
      <3>4. /\ AfterAttempt(s, status).attempt = s.attempt
            /\ AfterAttempt(s, status).phase = "success" <=> status = 200
        BY <3>2, <3>3
      <3> QED BY <3>1, <3>4 DEF s
    <2>3. shim' = [shim EXCEPT ![f] = t]
      BY <1>6 DEF Answers
    <2> HIDE DEF t, q
    <2>4. ASSUME NEW x \in Request PROVE Truthful(x)'
      <3>1. CASE x = r
        <4>1. request'[x] = q /\ shim'[x[1]] = t
          BY <1>1, <1>2, <1>4, <2>3, <3>1
        <4> QED BY <1>3, <2>2, <4>1 DEF Truthful
      <3>2. CASE x # r
        <4>1. request'[x] = request[x] /\ x[1] \in Fire
          BY <1>1, <1>4, <3>2 DEF Request
        <4>2. shim[x[1]].phase = "success" => shim'[x[1]] = shim[x[1]]
          BY <1>1, <2>1, <2>3, <4>1
        <4> QED BY <4>1, <4>2 DEF HeardInv, Truthful
      <3> QED BY <3>1, <3>2
    <2>5. ASSUME NEW g \in Fire PROVE Told(g)'
      <3>1. CASE g = f
        <4>1. shim'[g] = t /\ request'[r] = q
          BY <1>1, <1>2, <1>4, <2>3, <3>1
        <4>2. r = <<g, shim'[g].attempt>>
          BY <1>2, <2>2, <3>1, <4>1
        <4> QED BY <1>3, <2>2, <4>1, <4>2 DEF Told
      <3>2. CASE g # f
        <4>1. shim'[g] = shim[g]
          BY <1>1, <1>2, <2>3, <3>2
        <4>2. shim[g].attempt \in 1..MaxAttempts =>
                request'[<<g, shim[g].attempt>>] = request[<<g, shim[g].attempt>>]
          BY <1>1, <1>2, <1>4, <3>2 DEF Request
        <4>3. shim[g].phase = "success" => shim[g].attempt \in 1..MaxAttempts
          BY <1>1 DEF DeliveryInv, Numbered, Shim, DeliveryAssumption
        <4> QED BY <4>1, <4>2, <4>3 DEF HeardInv, Told
      <3> QED BY <3>1, <3>2
    <2> QED BY <2>4, <2>5 DEF HeardInv
  <1> QED BY <1>5, <1>6

LEMMA HeardStep ==
  ASSUME DeliveryAssumption, DeliveryInv, HeardInv, [DeliveryNext]_deliveryVars
  PROVE  HeardInv'
  <1>1. request \in [Request -> State] /\ shim \in [Fire -> Shim]
    BY DEF DeliveryInv, Shapes
  <1>2. ASSUME NEW f \in Fire, Begin(f) \/ Retry(f) PROVE HeardInv'
    <2>1. PICK s, n : Sends(f, n, s) /\ n = shim[f].attempt + 1
                      /\ shim[f].phase \in {"idle", "backoff"}
      <3>1. CASE Begin(f)
        <4>1. shim[f].attempt = 0
          BY <3>1 DEF Begin, DeliveryInv, Numbered
        <4>2. 1 = shim[f].attempt + 1
          BY <4>1
        <4> QED BY <3>1, <4>2 DEF Begin
      <3>2. CASE Retry(f)
        BY <3>2 DEF Retry
      <3> QED BY <1>2, <3>1, <3>2
    <2>2. n \in 1..MaxAttempts
      <3>1. shim[f].attempt \in 0..MaxAttempts
        BY <1>1 DEF Shim
      <3>2. shim[f].attempt < MaxAttempts
        BY <2>1 DEF DeliveryInv, Numbered, DeliveryAssumption
      <3> QED BY <2>1, <3>1, <3>2 DEF DeliveryAssumption
    <2> QED BY <2>1, <2>2, SendsHeard
  <1>3. ASSUME NEW r \in Request, Verify(r) \/ Dispatch(r) \/ CallHandler(r)
        PROVE  HeardInv'
    <2>1. /\ request[r] \in State /\ request[r].stage \in Serving
          /\ request[r].stage \notin {"reporting", "done"}
      BY <1>1, <1>3 DEF Verify, Dispatch, CallHandler, Serving
    <2>2. request[r].result = None /\ None # 200 /\ None \notin {401, 404}
      BY <2>1 DEF HeardInv, Truthful, DeliveryAssumption
    <2>3. ASSUME NEW stage \in Serving \ {"reporting"}, Stage(r, stage)
          PROVE  HeardInv'
      <3> DEFINE q == [request[r] EXCEPT !.stage = stage]
      <3>1. q.stage = stage /\ q.result = None
        BY <2>1, <2>2 DEF State
      <3>2. request' = [request EXCEPT ![r] = q] /\ shim' = shim
        BY <2>3 DEF Stage
      <3> HIDE DEF q
      <3> QED BY <2>1, <3>1, <3>2, ServesHeard DEF Serving
    <2>4. ASSUME NEW status \in {401, 404}, Settles(r, status) PROVE HeardInv'
      <3> DEFINE q == [request[r] EXCEPT !.stage = "reporting", !.answer = status]
      <3>1. q.stage = "reporting" /\ q.result = None /\ q.answer = status
        BY <2>1, <2>2 DEF State
      <3>2. request' = [request EXCEPT ![r] = q] /\ shim' = shim
        BY <2>4 DEF Settles
      <3> HIDE DEF q
      <3>3. q.answer # None /\ (q.answer = 200 <=> q.result = 200)
        BY <2>2, <3>1
      <3>4. q.stage \in Serving
        BY <3>1 DEF Serving
      <3>5. q.stage \notin {"reporting", "done"} => q.result = None
        BY <3>1
      <3> QED BY <2>1, <3>2, <3>3, <3>4, <3>5, ServesHeard, ZenonT(40)
    <2>5. Answers(r, 503) => HeardInv'
      BY <2>1, <2>2, AnswersHeard
    <2> QED BY <1>3, <2>3, <2>4, <2>5 DEF Verify, Dispatch, CallHandler, Serving
  <1>4. ASSUME NEW r \in Request, NEW status \in HandlerStatus, HandlerEnds(r, status)
        PROVE  HeardInv'
    <2> DEFINE q == [request[r] EXCEPT !.stage = "reporting",
                       !.result = status, !.answer = status]
    <2>1. request[r] \in State /\ request[r].stage \in Serving
      BY <1>1, <1>4 DEF HandlerEnds, Serving
    <2>2. q.stage = "reporting" /\ q.result = status /\ q.answer = status
      BY <2>1 DEF State
    <2>3. request' = [request EXCEPT ![r] = q] /\ shim' = shim
      BY <1>4 DEF HandlerEnds
    <2>4. status # None
      BY DEF HandlerStatus, DeliveryAssumption
    <2> HIDE DEF q
    <2> QED BY <2>1, <2>2, <2>3, <2>4, ServesHeard DEF Serving
  <1>5. ASSUME NEW r \in Request, Reply(r) PROVE HeardInv'
    <2>1. request[r].stage \in Serving /\ Answers(r, request[r].answer)
      BY <1>5 DEF Reply, Serving
    <2>2. request[r].answer \in Nat
          /\ (request[r].answer = 200 <=> request[r].result = 200)
      BY <1>1, <1>5 DEF Reply, HeardInv, Truthful, State
    <2> QED BY <2>1, <2>2, AnswersHeard
  <1>6. ASSUME NEW f \in Fire, TimesOut(f) PROVE HeardInv'
    <2>1. /\ shim[f] \in Shim /\ shim[f].phase = "inflight"
          /\ shim[f].attempt > 0
      BY <1>1, <1>6 DEF TimesOut, DeliveryInv, Numbered, Shim, DeliveryAssumption
    <2>2. /\ AfterAttempt(shim[f], None).attempt = shim[f].attempt
          /\ AfterAttempt(shim[f], None).phase # "success"
      <3> DEFINE s == shim[f]
      <3>1. s \in Shim /\ s.phase = "inflight" /\ s.attempt > 0
        BY <2>1
      <3> HIDE DEF s
      <3>2. /\ AfterAttempt(s, None).attempt = s.attempt
            /\ AfterAttempt(s, None).phase \in {"rejected", "exhausted", "backoff"}
        BY <3>1, LostAttemptIs, Zenon
      <3> QED BY <3>2 DEF s
    <2>3. /\ shim' = [shim EXCEPT ![f] = AfterAttempt(shim[f], None)]
          /\ request' = request
      BY <1>6 DEF TimesOut
    <2>4. \A g \in Fire :
            /\ shim'[g].attempt = shim[g].attempt
            /\ shim'[g].phase = "success" <=> shim[g].phase = "success"
      BY <1>1, <2>1, <2>2, <2>3
    <2> QED BY <2>3, <2>4, NothingHeard
  <1>7. CASE Restart
    <2>1. ASSUME NEW f \in Fire
          PROVE  /\ shim'[f].attempt = shim[f].attempt
                 /\ shim'[f].phase = "success" <=> shim[f].phase = "success"
                 /\ shim[f].phase = "success" => shim'[f] = shim[f]
      <3> DEFINE s == shim[f]
      <3>1. s \in Shim
        BY <1>1
      <3>2. shim'[f] = IF s.phase = "inflight" THEN AfterAttempt(s, None) ELSE s
        BY <1>7 DEF Restart
      <3>3. s.phase = "inflight" => s.attempt > 0
        BY <3>1 DEF DeliveryInv, Numbered, Shim, DeliveryAssumption
      <3> HIDE DEF s
      <3>4. s.phase = "inflight" =>
              /\ AfterAttempt(s, None).attempt = s.attempt
              /\ AfterAttempt(s, None).phase \in {"rejected", "exhausted", "backoff"}
        BY <3>1, <3>3, LostAttemptIs, Zenon
      <3>5. /\ shim'[f].attempt = s.attempt
            /\ shim'[f].phase = "success" <=> s.phase = "success"
            /\ s.phase = "success" => shim'[f] = s
        BY <3>2, <3>4
      <3> QED BY <3>5 DEF s
    <2>2. ASSUME NEW r \in Request
          PROVE  /\ request'[r] = request[r]
                    \/ (request'[r].stage = "done" /\ request'[r].answer = None)
                 /\ request[r].stage = "done" => request'[r] = request[r]
      <3>1. request'[r] = IF request[r].stage \in Serving
                            THEN [request[r] EXCEPT !.stage = "done", !.answer = None]
                            ELSE request[r]
        BY <1>7 DEF Restart
      <3>2. request[r] \in State
        BY <1>1
      <3> QED BY <3>1, <3>2 DEF State, Serving
    <2>3. ASSUME NEW r \in Request PROVE Truthful(r)'
      <3>1. r[1] \in Fire
        BY DEF Request
      <3> QED BY <2>1, <2>2, <3>1 DEF HeardInv, Truthful
    <2>4. ASSUME NEW f \in Fire PROVE Told(f)'
      <3> SUFFICES ASSUME shim'[f].phase = "success"
                   PROVE  LET q == request'[<<f, shim'[f].attempt>>]
                          IN  q.stage = "done" /\ q.result = 200
        BY DEF Told
      <3>1. shim[f].phase = "success" /\ shim'[f] = shim[f]
        BY <2>1
      <3>2. LET q == request[<<f, shim[f].attempt>>]
            IN  q.stage = "done" /\ q.result = 200
        BY <3>1 DEF HeardInv, Told
      <3>3. <<f, shim[f].attempt>> \in Request
        BY <1>1, <3>1 DEF Request, DeliveryInv, Numbered, Shim, DeliveryAssumption
      <3> QED BY <2>2, <3>1, <3>2, <3>3
    <2> QED BY <2>3, <2>4 DEF HeardInv
  <1>8. CASE \/ \E bound, skip \in BOOLEAN : Register(bound, skip)
             \/ On \/ AddSecret \/ Apply \/ DropSecret
             \/ UNCHANGED deliveryVars
    <2>1. UNCHANGED <<shim, request>>
      BY <1>8 DEF Register, On, AddSecret, Apply, DropSecret, deliveryVars
    <2> QED BY <2>1, NothingHeard
  <1>9. CASE Tick
    <2>1. request' = request
      BY <1>9 DEF Tick
    <2>2. \A f \in Fire :
            /\ shim'[f].attempt = shim[f].attempt
            /\ shim'[f].phase = "success" <=> shim[f].phase = "success"
      <3> SUFFICES ASSUME NEW f \in Fire
                   PROVE  /\ shim'[f].attempt = shim[f].attempt
                          /\ shim'[f].phase = shim[f].phase
        OBVIOUS
      <3>1. shim'[f] = IF shim[f].phase \in Waiting
                         THEN [shim[f] EXCEPT !.timer = @ - 1] ELSE shim[f]
        BY <1>9 DEF Tick
      <3> QED BY <1>1, <3>1 DEF Shim
    <2> QED BY <2>1, <2>2, NothingHeard
  <1> QED BY <1>2, <1>3, <1>4, <1>5, <1>6, <1>7, <1>8, <1>9 DEF DeliveryNext

\* The shim hears what the handler returned, for any number of fires, attempts
\* and restarts: a handler that was ok runs again in its fire only if its
\* answer was lost, and a success is the last handler's.
THEOREM RepeatedCorrect ==
  ASSUME DeliveryAssumption
  PROVE  DeliverySpec => []RepeatedOnlyIfLost
  <1>1. DeliveryInit => HeardInv
    <2> SUFFICES ASSUME DeliveryInit PROVE HeardInv
      OBVIOUS
    <2>1. ASSUME NEW r \in Request PROVE Truthful(r)
      BY DEF DeliveryInit, Truthful, NoRequest
    <2>2. ASSUME NEW f \in Fire PROVE Told(f)
      BY DEF DeliveryInit, Told, NoShim
    <2> QED BY <2>1, <2>2 DEF HeardInv
  <1>2. DeliveryInv /\ HeardInv /\ [DeliveryNext]_deliveryVars => HeardInv'
    BY HeardStep
  <1>3. HeardInv => RepeatedOnlyIfLost
    BY DEF HeardInv, Truthful, Told, RepeatedOnlyIfLost
  <1> QED BY <1>1, <1>2, <1>3, DeliveryInvariant, PTL DEF DeliverySpec
-----------------------------------------------------------------------------
\* E[a]: the longest a fire may have lasted when its attempt a goes out.
IsElapsed(E) ==
  /\ E \in [1..MaxAttempts -> Nat]
  /\ E[1] = 0
  /\ \A a \in 1..MaxAttempts : a < MaxAttempts =>
       E[a + 1] = E[a] + Timeout + Pause[a]

\* The last attempt ends, at the latest, with the replay window.
Fits(E) == \A a \in 1..MaxAttempts : E[a] + Timeout <= Window

\* The time a shim has taken since it signed, with what it still waits for.
Within(E, s, now) ==
  /\ s.phase = "inflight" => now + s.timer <= s.signed + E[s.attempt] + Timeout
  /\ s.phase = "backoff" =>
       now + s.timer <= s.signed + E[s.attempt] + Timeout + Pause[s.attempt]

\* The secrets a signature may have been made with.
Known == {secret \in {"old", "new"} : Contains(accepted, secret)}

\* The spec names no secret first that the application does not know.
Rotated ==
  \/ spec = <<"old">> /\ accepted \in {<<"old">>, <<"new", "old">>}
  \/ spec = <<"new", "old">> /\ accepted \in {<<"new", "old">>, <<"new">>}
  \/ spec = <<"new">> /\ accepted = <<"new">>

Signed(E, f) ==
  /\ Within(E, shim[f], clock)
  /\ shim[f].phase \in Waiting => shim[f].secret \in Known

SignedInv(E) == Rotated /\ \A f \in Fire : Signed(E, f)

LEMMA KnownIs ==
  /\ accepted = <<"old">> => Known = {"old"}
  /\ accepted = <<"new", "old">> => Known = {"new", "old"}
  /\ accepted = <<"new">> => Known = {"new"}
  BY DEF Known, Contains

\* An attempt that ends leaves its shim with no more than the backoff to wait.
LEMMA EndsWithin ==
  ASSUME DeliveryAssumption, NEW E, IsElapsed(E), NEW now \in Nat,
         NEW s \in Shim, NEW t \in Shim, s.phase = "inflight", s.attempt > 0,
         Within(E, s, now),
         t.attempt = s.attempt, t.signed = s.signed,
         t.phase \in Ends \cup {"backoff"},
         t.phase = "backoff" =>
           s.attempt < MaxAttempts /\ t.timer = Pause[s.attempt]
  PROVE  Within(E, t, now)
  <1>1. t.phase # "inflight"
    BY DEF Ends
  <1>2. ASSUME t.phase = "backoff"
        PROVE  now + t.timer <= t.signed + E[t.attempt] + Timeout + Pause[t.attempt]
    <2>1. s.attempt \in 1..MaxAttempts /\ s.timer \in Nat /\ s.signed \in Nat
      BY DEF Shim, DeliveryAssumption
    <2>2. /\ E[s.attempt] \in Nat /\ Pause[s.attempt] \in Nat /\ Timeout \in Nat
      BY <2>1 DEF IsElapsed, DeliveryAssumption
    <2>3. now + s.timer <= s.signed + E[s.attempt] + Timeout
      BY DEF Within
    <2>4. now + Pause[s.attempt]
            <= s.signed + E[s.attempt] + Timeout + Pause[s.attempt]
      BY <2>1, <2>2, <2>3
    <2> QED BY <1>2, <2>4
  <1> QED BY <1>1, <1>2 DEF Within

\* One shim ends its attempt; nothing that its signature depends on changes.
LEMMA EndsSigned ==
  ASSUME DeliveryAssumption, DeliveryInv, NEW E, IsElapsed(E),
         NEW f \in Fire, Signed(E, f), shim[f].phase = "inflight",
         NEW status \in Nat \cup {None}
  PROVE  LET t == AfterAttempt(shim[f], status)
         IN  /\ Within(E, t, clock)
             /\ t.phase \in Waiting => t.secret \in Known
             /\ t.phase # "inflight"
  <1> DEFINE s == shim[f]
             t == AfterAttempt(s, status)
  <1>1. s \in Shim /\ s.phase = "inflight" /\ s.attempt > 0 /\ clock \in Nat
    BY DEF DeliveryInv, Shapes, Numbered, Shim, DeliveryAssumption
  <1>2. Within(E, s, clock) /\ s.secret \in Known
    BY DEF Signed, Waiting
  <1> HIDE DEF s
  <1>3. Outcome(s, status, AfterAttempt(s, status))
    BY <1>1, AfterAttemptIs
  <1> HIDE DEF t
  <1>6. /\ t \in Shim /\ t.attempt = s.attempt /\ t.signed = s.signed
        /\ t.secret = s.secret /\ t.phase \in Ends \cup {"backoff"}
        /\ t.phase = "backoff" =>
             s.attempt < MaxAttempts /\ t.timer = Pause[s.attempt]
    <2>1. Outcome(s, status, t)
      BY <1>3 DEF t
    <2> QED BY <2>1 DEF Outcome
  <1>7. Within(E, t, clock)
    BY <1>1, <1>2, <1>6, EndsWithin
  <1>8. t.phase # "inflight"
    BY <1>6 DEF Ends
  <1> QED BY <1>2, <1>6, <1>7, <1>8 DEF t, s
\* While the clock and the secrets stand still, and a shim sends nothing.
LEMMA SignedStays ==
  ASSUME DeliveryAssumption, DeliveryInv, NEW E, IsElapsed(E), SignedInv(E),
         UNCHANGED <<clock, spec, accepted>>,
         \A f \in Fire :
           \/ shim'[f] = shim[f]
           \/ /\ shim[f].phase = "inflight"
              /\ \E status \in Nat \cup {None} :
                   shim'[f] = AfterAttempt(shim[f], status)
  PROVE  SignedInv(E)'
  <1>1. Rotated'
    BY DEF SignedInv, Rotated
  <1>2. Known' = Known
    BY DEF Known
  <1>3. ASSUME NEW f \in Fire PROVE Signed(E, f)'
    <2>1. Signed(E, f)
      BY DEF SignedInv
    <2>2. CASE shim'[f] = shim[f]
      BY <1>2, <2>1, <2>2 DEF Signed, Within
    <2>3. CASE shim'[f] # shim[f]
      <3>1. PICK status \in Nat \cup {None} :
              shim'[f] = AfterAttempt(shim[f], status)
        BY <2>3
      <3>2. shim[f].phase = "inflight"
        BY <2>3
      <3>3. LET t == AfterAttempt(shim[f], status)
            IN  /\ Within(E, t, clock)
                /\ t.phase \in Waiting => t.secret \in Known
        BY <2>1, <3>2, EndsSigned
      <3> QED BY <1>2, <3>1, <3>3 DEF Signed, Within
    <2> QED BY <2>2, <2>3
  <1> QED BY <1>1, <1>3 DEF SignedInv

LEMMA SignedSends ==
  ASSUME DeliveryAssumption, DeliveryInv, NEW E, IsElapsed(E), SignedInv(E),
         UNCHANGED <<clock, spec, accepted>>,
         NEW f \in Fire, NEW n \in 1..MaxAttempts, NEW s \in Shim, Sends(f, n, s),
         s.secret \in Known, clock <= s.signed + E[n]
  PROVE  SignedInv(E)'
  <1> DEFINE t == [s EXCEPT !.phase = "inflight", !.attempt = n, !.timer = Timeout]
  <1>1. /\ t.phase = "inflight" /\ t.attempt = n /\ t.timer = Timeout
        /\ t.signed = s.signed /\ t.secret = s.secret
    BY DEF Shim
  <1>2. shim' = [shim EXCEPT ![f] = t] /\ shim \in [Fire -> Shim]
    BY DEF Sends, DeliveryInv, Shapes
  <1> HIDE DEF t
  <1>3. Rotated' /\ Known' = Known
    BY DEF SignedInv, Rotated, Known
  <1>4. clock + Timeout <= s.signed + E[n] + Timeout
    <2>1. clock \in Nat /\ s.signed \in Nat /\ E[n] \in Nat /\ Timeout \in Nat
      BY DEF DeliveryInv, Shapes, Shim, IsElapsed, DeliveryAssumption
    <2> QED BY <2>1
  <1>5. Within(E, t, clock)
    BY <1>1, <1>4 DEF Within
  <1>6. ASSUME NEW g \in Fire PROVE Signed(E, g)'
    <2>1. CASE g = f
      <3>1. shim'[g] = t
        BY <1>2, <2>1
      <3> QED BY <1>1, <1>3, <1>5, <3>1 DEF Signed, Within
    <2>2. CASE g # f
      <3>1. shim'[g] = shim[g]
        BY <1>2, <2>2
      <3> QED BY <1>3, <3>1 DEF SignedInv, Signed, Within
    <2> QED BY <2>1, <2>2
  <1> QED BY <1>3, <1>6 DEF SignedInv
LEMMA SignedStep ==
  ASSUME DeliveryAssumption, DeliveryInv, NEW E, IsElapsed(E), SignedInv(E),
         [DeliveryNext]_deliveryVars
  PROVE  SignedInv(E)'
  <1>0. shim \in [Fire -> Shim] /\ request \in [Request -> State] /\ clock \in Nat
    BY DEF DeliveryInv, Shapes, DeliveryAssumption
  <1>1. ASSUME NEW f \in Fire, Begin(f) PROVE SignedInv(E)'
    <2> DEFINE s == [shim[f] EXCEPT !.signed = clock, !.secret = spec[1]]
    <2>1. spec[1] \in Known /\ spec[1] \in {"old", "new"}
      BY KnownIs DEF SignedInv, Rotated
    <2>2. s \in Shim /\ s.signed = clock /\ s.secret = spec[1]
      <3> DEFINE u == [shim[f] EXCEPT !.signed = clock]
      <3>1. u \in Shim /\ u.signed = clock
        BY <1>0 DEF Shim
      <3>2. s = [u EXCEPT !.secret = spec[1]]
        OBVIOUS
      <3> HIDE DEF u, s
      <3> QED BY <2>1, <3>1, <3>2 DEF Shim
    <2>3. Sends(f, 1, s) /\ UNCHANGED <<clock, spec, accepted>>
      BY <1>1 DEF Begin
    <2> HIDE DEF s
    <2>4. 1 \in 1..MaxAttempts /\ clock <= s.signed + E[1]
      BY <1>0, <2>2 DEF IsElapsed, DeliveryAssumption
    <2> QED BY <2>1, <2>2, <2>3, <2>4, SignedSends
  <1>2. ASSUME NEW f \in Fire, Retry(f) PROVE SignedInv(E)'
    <2> DEFINE s == shim[f]
    <2>1. /\ s \in Shim /\ s.phase = "backoff" /\ s.timer = 0
          /\ s.attempt \in 1..MaxAttempts /\ s.attempt < MaxAttempts
      BY <1>0, <1>2 DEF Retry, DeliveryInv, Numbered, Shim, DeliveryAssumption
    <2>2. Sends(f, s.attempt + 1, s) /\ UNCHANGED <<clock, spec, accepted>>
      BY <1>2 DEF Retry
    <2>3. s.secret \in Known /\ Within(E, s, clock)
      BY <2>1 DEF SignedInv, Signed, Waiting
    <2> HIDE DEF s
    <2>4. E[s.attempt + 1] = E[s.attempt] + Timeout + Pause[s.attempt]
      BY <2>1 DEF IsElapsed
    <2>5. /\ s.attempt + 1 \in 1..MaxAttempts /\ s.signed \in Nat
          /\ E[s.attempt] \in Nat /\ Pause[s.attempt] \in Nat /\ Timeout \in Nat
      <3>1. s.attempt \in 1..MaxAttempts /\ s.attempt + 1 \in 1..MaxAttempts
        BY <2>1 DEF DeliveryAssumption
      <3>2. s.signed \in Nat
        BY <2>1 DEF Shim
      <3>3. E[s.attempt] \in Nat
        BY <3>1 DEF IsElapsed
      <3>4. Pause[s.attempt] \in Nat /\ Timeout \in Nat
        BY <2>1 DEF DeliveryAssumption
      <3> QED BY <3>1, <3>2, <3>3, <3>4
    <2>6. clock <= s.signed + E[s.attempt + 1]
      <3>1. clock + s.timer <= s.signed + E[s.attempt] + Timeout + Pause[s.attempt]
        BY <2>1, <2>3 DEF Within
      <3>2. clock \in Nat
        BY <1>0
      <3> QED BY <2>1, <2>4, <2>5, <3>1, <3>2
    <2> QED BY <2>1, <2>2, <2>3, <2>5, <2>6, SignedSends
  <1>3. ASSUME NEW r \in Request, RequestStep(r) PROVE SignedInv(E)'
    <2>1. PICK q \in State, status \in Nat \cup {None} : Moves(r, q, status)
      BY <1>0, <1>3, RequestMoves
    <2>2. UNCHANGED <<clock, spec, accepted>>
      BY <1>3 DEF RequestStep, Verify, Dispatch, CallHandler, Reply, HandlerEnds
    <2>3. r[1] \in Fire
      BY DEF Request
    <2>4. ASSUME NEW f \in Fire
          PROVE  \/ shim'[f] = shim[f]
                 \/ /\ shim[f].phase = "inflight"
                    /\ shim'[f] = AfterAttempt(shim[f], status)
      BY <1>0, <2>1, <2>3 DEF Moves, Awaited
    <2> QED BY <2>2, <2>4, SignedStays
  <1>4. ASSUME NEW f \in Fire, TimesOut(f) PROVE SignedInv(E)'
    <2>1. UNCHANGED <<clock, spec, accepted>>
      BY <1>4 DEF TimesOut
    <2>2. ASSUME NEW g \in Fire
          PROVE  \/ shim'[g] = shim[g]
                 \/ /\ shim[g].phase = "inflight"
                    /\ shim'[g] = AfterAttempt(shim[g], None)
      BY <1>0, <1>4 DEF TimesOut
    <2> QED BY <2>1, <2>2, SignedStays
  <1>5. CASE Restart
    <2>1. UNCHANGED <<clock, spec, accepted>>
      BY <1>5 DEF Restart
    <2>2. ASSUME NEW g \in Fire
          PROVE  \/ shim'[g] = shim[g]
                 \/ /\ shim[g].phase = "inflight"
                    /\ shim'[g] = AfterAttempt(shim[g], None)
      BY <1>5 DEF Restart
    <2> QED BY <2>1, <2>2, SignedStays
  <1>6. CASE \/ \E bound, skip \in BOOLEAN : Register(bound, skip)
             \/ On \/ UNCHANGED deliveryVars
    <2>1. UNCHANGED <<clock, spec, accepted, shim>>
      BY <1>6 DEF Register, On, deliveryVars
    <2> QED BY <2>1, SignedStays
  <1>7. CASE AddSecret \/ Apply \/ DropSecret
    <2>1. UNCHANGED <<clock, shim>>
      BY <1>7 DEF AddSecret, Apply, DropSecret
    <2>2. Rotated'
      BY <1>7 DEF AddSecret, Apply, DropSecret, SignedInv, Rotated
    <2>3. ASSUME NEW f \in Fire, shim[f].phase \in Waiting
          PROVE  shim[f].secret \in Known'
      <3>1. shim[f].secret \in Known
        BY <2>3 DEF SignedInv, Signed
      <3>2. CASE AddSecret
        <4>1. shim[f].secret = "old" /\ accepted' = <<"new", "old">>
          BY <3>1, <3>2, KnownIs DEF AddSecret
        <4> QED BY <4>1 DEF Known, Contains
      <3>3. CASE Apply
        BY <3>1, <3>3 DEF Apply, Known
      <3>4. CASE DropSecret
        <4>1. shim[f].secret = "new" /\ accepted' = <<"new">>
          BY <2>3, <3>1, <3>4 DEF DropSecret, Known
        <4> QED BY <4>1 DEF Known, Contains
      <3> QED BY <1>7, <3>2, <3>3, <3>4
    <2>4. ASSUME NEW f \in Fire PROVE Signed(E, f)'
      BY <2>1, <2>3 DEF SignedInv, Signed, Within
    <2> QED BY <2>2, <2>4 DEF SignedInv
  <1>8. CASE Tick
    <2>1. UNCHANGED <<spec, accepted>> /\ clock' = clock + 1
      BY <1>8 DEF Tick
    <2>2. ASSUME NEW f \in Fire PROVE Signed(E, f)'
      <3> DEFINE s == shim[f]
                 t == shim'[f]
      <3>1. s \in Shim /\ Within(E, s, clock)
            /\ (s.phase \in Waiting => s.secret \in Known)
        BY <1>0 DEF SignedInv, Signed
      <3>2. t = IF s.phase \in Waiting THEN [s EXCEPT !.timer = @ - 1] ELSE s
        BY <1>8 DEF Tick
      <3> HIDE DEF s, t
      <3>3. /\ t.phase = s.phase /\ t.attempt = s.attempt /\ t.signed = s.signed
            /\ t.secret = s.secret /\ s.timer \in Nat
            /\ s.phase \in Waiting => t.timer = s.timer - 1
        BY <3>1, <3>2 DEF Shim
      <3>4. s.phase \in Waiting => clock' + t.timer = clock + s.timer
        BY <1>0, <2>1, <3>3
      <3>5. Within(E, t, clock')
        BY <3>1, <3>3, <3>4 DEF Within, Waiting
      <3>6. Known' = Known
        BY <2>1 DEF Known
      <3> QED BY <3>1, <3>3, <3>5, <3>6 DEF Signed, Within, t
    <2> QED BY <2>1, <2>2 DEF SignedInv, Rotated
  <1> QED BY <1>1, <1>2, <1>3, <1>4, <1>5, <1>6, <1>7, <1>8
          DEF DeliveryNext, RequestStep
\* A shim that sends nothing waits for no request that it did not wait for.
LEMMA StillAwaited ==
  ASSUME DeliveryAssumption, DeliveryInv, NEW E, IsElapsed(E), SignedInv(E),
         \A f \in Fire :
           \/ shim'[f] = shim[f]
           \/ /\ shim[f].phase = "inflight"
              /\ \E status \in Nat \cup {None} :
                   shim'[f] = AfterAttempt(shim[f], status),
         NEW r \in Request, Awaited(r)'
  PROVE  Awaited(r) /\ shim'[r[1]] = shim[r[1]]
  <1> DEFINE f == r[1]
  <1>1. f \in Fire
    BY DEF Request
  <1>2. shim'[f] = shim[f]
    <2> SUFFICES ASSUME shim'[f] # shim[f] PROVE FALSE
      OBVIOUS
    <2>1. PICK status \in Nat \cup {None} : shim'[f] = AfterAttempt(shim[f], status)
      BY <1>1
    <2>2. shim[f].phase = "inflight" /\ Signed(E, f)
      BY <1>1 DEF SignedInv
    <2>3. LET t == AfterAttempt(shim[f], status) IN t.phase # "inflight"
      BY <1>1, <2>2, EndsSigned
    <2> QED BY <2>1, <2>3 DEF Awaited
  <1> QED BY <1>2 DEF Awaited

\* A request that its shim waits for passes the verifier.
LEMMA AwaitedAccepted ==
  ASSUME DeliveryAssumption, DeliveryInv, NEW E, IsElapsed(E), Fits(E),
         SignedInv(E), NEW r \in Request, Awaited(r)
  PROVE  Accepts(r)
  <1> DEFINE s == shim[r[1]]
  <1>1. /\ r[1] \in Fire /\ s \in Shim /\ clock \in Nat
        /\ s.phase = "inflight" /\ s.attempt \in 1..MaxAttempts
    BY DEF Request, Awaited, DeliveryInv, Shapes, DeliveryAssumption
  <1>2. Within(E, s, clock) /\ s.secret \in Known
    BY <1>1 DEF SignedInv, Signed, Waiting
  <1> HIDE DEF s
  <1>3. clock - s.signed <= Window
    <2>1. /\ s.timer \in Nat /\ s.signed \in Nat /\ E[s.attempt] \in Nat
          /\ Timeout \in Nat /\ Window \in Nat
      BY <1>1 DEF Shim, IsElapsed, DeliveryAssumption
    <2>2. clock + s.timer <= s.signed + E[s.attempt] + Timeout
      BY <1>1, <1>2 DEF Within
    <2>3. E[s.attempt] + Timeout <= Window
      BY <1>1 DEF Fits
    <2> QED BY <1>1, <2>1, <2>2, <2>3
  <1>4. Contains(accepted, s.secret)
    BY <1>2 DEF Known
  <1> QED BY <1>3, <1>4 DEF Accepts, s

LEMMA RefusedStep ==
  ASSUME DeliveryAssumption, DeliveryInv, NEW E, IsElapsed(E), Fits(E),
         SignedInv(E), AuthenticNeverRefused, [DeliveryNext]_deliveryVars
  PROVE  AuthenticNeverRefused'
  <1>0. /\ shim \in [Fire -> Shim] /\ request \in [Request -> State]
        /\ None # 401
    BY DEF DeliveryInv, Shapes, DeliveryAssumption
  <1> SUFFICES ASSUME NEW r \in Request, Awaited(r)' PROVE request'[r].answer # 401
    BY DEF AuthenticNeverRefused
  <1>1. Awaited(r) => request[r].answer # 401
    BY DEF AuthenticNeverRefused
  <1>2. ASSUME NEW f \in Fire, Begin(f) \/ Retry(f) PROVE request'[r].answer # 401
    <2>1. PICK n, s : Sends(f, n, s)
      BY <1>2 DEF Begin, Retry
    <2> DEFINE t == [s EXCEPT !.phase = "inflight", !.attempt = n, !.timer = Timeout]
               q == [NoRequest EXCEPT !.stage = "arrived"]
    <2>2. q.answer = None
      BY DEF NoRequest
    <2>3. shim' = [shim EXCEPT ![f] = t] /\ request' = [request EXCEPT ![<<f, n>>] = q]
      BY <2>1 DEF Sends
    <2> HIDE DEF q
    <2>4. CASE r = <<f, n>>
      BY <1>0, <2>2, <2>3, <2>4
    <2>5. CASE r # <<f, n>> /\ r[1] # f
      BY <1>0, <1>1, <2>3, <2>5 DEF Awaited
    <2>6. CASE r # <<f, n>> /\ r[1] = f
      BY <1>0, <1>1, <2>3, <2>6 DEF Awaited, Request
    <2> QED BY <2>4, <2>5, <2>6
  <1>3. ASSUME NEW x \in Request, RequestStep(x) PROVE request'[r].answer # 401
    <2>1. PICK q \in State, status \in Nat \cup {None} : Moves(x, q, status)
      BY <1>0, <1>3, RequestMoves
    <2>2. x[1] \in Fire
      BY DEF Request
    <2>3. ASSUME NEW f \in Fire
          PROVE  \/ shim'[f] = shim[f]
                 \/ /\ shim[f].phase = "inflight"
                    /\ shim'[f] = AfterAttempt(shim[f], status)
      BY <1>0, <2>1, <2>2 DEF Moves, Awaited
    <2>4. Awaited(r) /\ shim'[r[1]] = shim[r[1]]
      BY <2>3, StillAwaited
    <2>5. CASE r # x
      BY <1>0, <1>1, <2>1, <2>4, <2>5 DEF Moves
    <2>6. CASE r = x
      <3>1. Accepts(x)
        BY <2>4, <2>6, AwaitedAccepted
      <3>2. ASSUME NEW stage, Stage(x, stage) PROVE request'[r].answer # 401
        BY <1>0, <1>1, <2>4, <2>6, <3>2 DEF Stage, State
      <3>3. ASSUME Settles(x, 404) PROVE request'[r].answer # 401
        BY <1>0, <2>6, <3>3 DEF Settles, State
      <3>4. ASSUME NEW st \in HandlerStatus, HandlerEnds(x, st)
            PROVE  request'[r].answer # 401
        <4> DEFINE u == [request[x] EXCEPT !.stage = "reporting",
                           !.result = st, !.answer = st]
        <4>1. u.answer = st /\ st # 401
          BY <1>0 DEF HandlerStatus, State
        <4>2. request'[r] = u
          BY <1>0, <2>6, <3>4 DEF HandlerEnds
        <4> QED BY <4>1, <4>2
      <3>5. ASSUME NEW st, Answers(x, st), st \in Nat \cup {None}
            PROVE  request'[r].answer # 401
        <4>1. shim'[r[1]] = AfterAttempt(shim[r[1]], st)
          BY <1>0, <2>2, <2>4, <2>6, <3>5 DEF Answers
        <4>2. Signed(E, r[1]) /\ shim[r[1]].phase = "inflight"
          BY <2>2, <2>4, <2>6 DEF SignedInv, Awaited
        <4>3. LET t == AfterAttempt(shim[r[1]], st) IN t.phase # "inflight"
          BY <2>2, <2>6, <3>5, <4>2, EndsSigned
        <4> QED BY <2>4, <4>1, <4>2, <4>3
      <3>6. CASE Verify(x)
        BY <3>1, <3>2, <3>3, <3>6 DEF Verify
      <3>7. CASE Dispatch(x)
        BY <3>2, <3>5, <3>7 DEF Dispatch
      <3>8. CASE CallHandler(x)
        BY <3>2, <3>8 DEF CallHandler
      <3>9. CASE Reply(x)
        <4>1. request[x].answer \in Nat \cup {None}
          BY <1>0 DEF State
        <4> QED BY <3>5, <3>9, <4>1 DEF Reply
      <3> QED BY <1>3, <3>4, <3>6, <3>7, <3>8, <3>9 DEF RequestStep
    <2> QED BY <2>5, <2>6
  <1>4. ASSUME NEW f \in Fire, TimesOut(f) PROVE request'[r].answer # 401
    <2>1. ASSUME NEW g \in Fire
          PROVE  \/ shim'[g] = shim[g]
                 \/ /\ shim[g].phase = "inflight"
                    /\ shim'[g] = AfterAttempt(shim[g], None)
      BY <1>0, <1>4 DEF TimesOut
    <2>2. PICK lost \in Nat \cup {None} : lost = None
      OBVIOUS
    <2>3. Awaited(r) /\ shim'[r[1]] = shim[r[1]]
      BY <1>1, <2>1, <2>2, StillAwaited
    <2> QED BY <1>1, <1>4, <2>3 DEF TimesOut
  <1>5. CASE Restart
    <2>1. ASSUME NEW g \in Fire
          PROVE  \/ shim'[g] = shim[g]
                 \/ /\ shim[g].phase = "inflight"
                    /\ shim'[g] = AfterAttempt(shim[g], None)
      BY <1>5 DEF Restart
    <2>2. Awaited(r)
      BY <2>1, StillAwaited
    <2>3. request'[r] = IF request[r].stage \in Serving
                          THEN [request[r] EXCEPT !.stage = "done", !.answer = None]
                          ELSE request[r]
      BY <1>5 DEF Restart
    <2> QED BY <1>0, <1>1, <2>2, <2>3 DEF State
  <1>6. CASE \/ \E bound, skip \in BOOLEAN : Register(bound, skip)
             \/ On \/ AddSecret \/ Apply \/ DropSecret
             \/ UNCHANGED deliveryVars
    <2>1. UNCHANGED <<shim, request>>
      BY <1>6 DEF Register, On, AddSecret, Apply, DropSecret, deliveryVars
    <2> QED BY <1>1, <2>1 DEF Awaited
  <1>7. CASE Tick
    <2>1. r[1] \in Fire /\ request' = request
      BY <1>7 DEF Request, Tick
    <2>2. shim'[r[1]] = IF shim[r[1]].phase \in Waiting
                          THEN [shim[r[1]] EXCEPT !.timer = @ - 1] ELSE shim[r[1]]
      BY <1>7, <2>1 DEF Tick
    <2>3. Awaited(r)
      BY <1>0, <2>1, <2>2 DEF Awaited, Shim
    <2> QED BY <1>1, <2>1, <2>3
  <1> QED BY <1>2, <1>3, <1>4, <1>5, <1>6, <1>7 DEF DeliveryNext, RequestStep

\* If all the attempts and backoffs of the policy fit in the replay window, no
\* attempt that its shim waits for is refused for its signature, whatever the
\* rotation of the secrets by the documented steps and the application do.
THEOREM FittingAttemptsAreAuthentic ==
  ASSUME DeliveryAssumption, NEW CONSTANT E, IsElapsed(E), Fits(E)
  PROVE  DeliverySpec => []AuthenticNeverRefused
  <1>1. DeliveryInit => SignedInv(E) /\ AuthenticNeverRefused
    <2> SUFFICES ASSUME DeliveryInit PROVE SignedInv(E) /\ AuthenticNeverRefused
      OBVIOUS
    <2>1. Rotated
      BY DEF DeliveryInit, Rotated
    <2>2. ASSUME NEW f \in Fire PROVE Signed(E, f)
      BY DEF DeliveryInit, Signed, Within, NoShim, Waiting
    <2>3. AuthenticNeverRefused
      BY DEF DeliveryInit, AuthenticNeverRefused, Awaited, NoShim, Request
    <2> QED BY <2>1, <2>2, <2>3 DEF SignedInv
  <1>2. DeliveryInv /\ SignedInv(E) /\ AuthenticNeverRefused
          /\ [DeliveryNext]_deliveryVars
        => SignedInv(E)' /\ AuthenticNeverRefused'
    BY SignedStep, RefusedStep
  <1> QED BY <1>1, <1>2, DeliveryInvariant, PTL DEF DeliverySpec
=============================================================================
