------------------------------ MODULE Normalize ------------------------------
(***************************************************************************)
(* Validation and normalization of a manifest, twice: Parse, Validate and  *)
(* ApplyDefaults in Go (go/internal/manifest, manifest.go and cron.go),    *)
(* the zod schema, validateSchedule and applyDefaults in TypeScript        *)
(* (ts/packages/sdk/src/core, manifest.ts and cron.ts).                    *)
(*                                                                         *)
(* Names are numbers; a secret reference matches the regular expression    *)
(* that both use, or not; the two cron parsers and the two URL parsers are *)
(* libraries, and each takes a text or not.  Left out are the version and  *)
(* app, headers, keys in another case or twice, numbers written with a     *)
(* fraction, and that zod trims a URL.                                     *)
(***************************************************************************)
EXTENDS Ordering, SequencesExt

CONSTANTS
  Manifests,   \* the manifests an application may declare
  Text,        \* the strings, the texts of fields
  Omitted,     \* a field that is not there
  Null,        \* a field that is null
  MaxInt,      \* the largest int of Go
  MaxSafe,     \* the largest integer z.number().int() takes
  MaxNumber    \* the largest number of TypeScript that is not Infinity

VARIABLE manifest

\* The fields that are there have the types of the struct, or of the schema.
Optional(S) == S \cup {Omitted, Null}

\* The white space of a schedule: what both languages take for it, U+FEFF
\* that only TypeScript does, U+0085 that only Go does.
Space == {"none", "space", "bom", "nel"}

\* A shortcut, the name of what every object of JavaScript has ("constructor"),
\* five fields with the parsers that take what their language leaves of it
\* after its trim, @every in any case, and anything else.
Form ==
  [kind : {"shortcut", "inherited", "other"}]
  \cup [kind : {"fields"}, takenBy : SUBSET {"robfig", "cron-parser"}]
  \cup [kind : {"every"}, upper : BOOLEAN, sep : Space, plus : BOOLEAN, n : Nat,
        unit : {"s", "m", "h", "other"}]

\* The white space before or after a schedule is its pad.
Schedule == [text : Text, pad : Space, form : Form]

\* With a host after http(s)://, with none, and anything else.
URL == [form : {"http", "hostless", "other"}, takenBy : SUBSET {"net/url", "URL"}]

Retries == [attempts : Optional(Int), min : Optional(Int), max : Optional(Int)]
Policy == [concurrency : Optional(Text), scope : Optional(Text),
           timeout : Optional(Int), retries : Optional(Retries)]
Auth == [refs : Optional(Seq([valid : BOOLEAN]))]
HttpRequest == [url : URL, method : Optional(Text), body : Optional(Text)]
Declared ==
  [name : Nat, schedule : Optional(Schedule), schedules : Optional(Seq(Schedule)),
   timezone : Optional(Text), request : HttpRequest,
   policy : Optional(Policy), auth : Optional(Auth)]

ASSUME NormalizeAssumption ==
  /\ \A m \in Manifests : m.jobs \in Seq(Declared) /\ m.unknown \in BOOLEAN
  /\ {"UTC", "POST", "", "Forbid", "host"} \subseteq Text
  /\ Omitted # Null
  /\ \A absent \in {Omitted, Null} :
       /\ absent \notin Text \cup Int \cup Schedule \cup Retries \cup Policy \cup Auth
       /\ absent \notin Seq(Schedule) \cup Seq([valid : BOOLEAN])

\* 2^63 - 1, 2^53 - 1 and about 1.8 * 10^308.
ASSUME MaximaAssumption ==
  /\ MaxInt \in Nat /\ MaxSafe \in Nat /\ MaxNumber \in Nat
  /\ MaxSafe <= MaxInt /\ MaxInt <= MaxNumber

MaxJobs == 256
MaxSchedules == 64
MaxRefs == 8
Methods == {"GET", "POST", "PUT", "PATCH", "DELETE"}
Concurrencies == {"Allow", "Forbid", "Replace"}
Scopes == {"host", "global"}

NoRetries == [attempts |-> Omitted, min |-> Omitted, max |-> Omitted]
NoPolicy == [concurrency |-> Omitted, scope |-> Omitted, timeout |-> Omitted,
             retries |-> Omitted]

\* What JSON leaves nil in Go, and what ?? replaces.
Missing == {Omitted, Null}

Default(x, d) == IF x \in Missing THEN d ELSE x

\* The seconds of the units of @every.
Seconds == [s |-> 1, m |-> 60, h |-> 3600]

-----------------------------------------------------------------------------
(* Go: every check adds an issue, and any issue makes the manifest invalid. *)

GoOneOf(x, S) == x \in Missing \/ x \in S

GoNumber(x, a, b) == x \in Missing \/ (a <= x /\ x <= b)

\* A product that does not fit in an int wraps around.
Wrapped(x) ==
  LET half == MaxInt + 1
  IN  IF x <= MaxInt THEN x ELSE ((x + half) % (2 * half)) - half

\* validateSchedule: the prefix @every in small letters, with or without white
\* space, and what Atoi reads, a sign included.
GoSchedule(s) ==
  LET f == s.form
  IN \/ f.kind = "fields" /\ "robfig" \in f.takenBy
     \/ f.kind = "shortcut" /\ s.pad # "bom"
     \/ /\ f.kind = "every" /\ s.pad # "bom" /\ f.sep # "bom"
        /\ ~f.upper /\ f.n \in 1..MaxInt /\ f.unit \in DOMAIN Seconds
        /\ Wrapped(f.n * Seconds[f.unit]) >= 60

GoURL(u) == u.form = "http" /\ "net/url" \in u.takenBy

GoRetries(r) ==
  /\ GoNumber(r.attempts, 1, 10)
  /\ GoNumber(r.min, 0, MaxInt) /\ GoNumber(r.max, 1, MaxInt)
  /\ r.min \notin Missing /\ r.max \notin Missing => r.min <= r.max

GoPolicy(p) ==
  /\ GoOneOf(p.concurrency, Concurrencies) /\ GoOneOf(p.scope, Scopes)
  /\ GoNumber(p.timeout, 1, 600)
  /\ p.retries \notin Missing => GoRetries(p.retries)

\* A list of references that is there must not be empty.
GoAuth(a) ==
  a.refs \notin Missing =>
    Len(a.refs) \in 1..MaxRefs /\ \A i \in DOMAIN a.refs : a.refs[i].valid

GoJob(j) ==
  /\ (j.schedule \notin Missing) # (j.schedules \notin Missing)
  /\ j.schedule \notin Missing => GoSchedule(j.schedule)
  /\ j.schedules \notin Missing =>
       /\ Len(j.schedules) \in 1..MaxSchedules
       /\ \A i \in DOMAIN j.schedules : GoSchedule(j.schedules[i])
  /\ GoURL(j.request.url) /\ GoOneOf(j.request.method, Methods)
  /\ j.policy \notin Missing => GoPolicy(j.policy)
  /\ j.auth \notin Missing => GoAuth(j.auth)

\* A job after another of its name is an issue.
GoValidate(m) ==
  /\ Len(m.jobs) \in 1..MaxJobs
  /\ \A i \in DOMAIN m.jobs :
       GoJob(m.jobs[i]) /\ \A k \in 1..(i - 1) : m.jobs[k].name # m.jobs[i].name

\* DisallowUnknownFields.
GoParse(m) == ~m.unknown /\ GoValidate(m)

GoTrim(s) == IF s.pad = "bom" THEN s ELSE [s EXCEPT !.pad = "none"]

\* A sort by name, in both; no two jobs of a valid manifest share a name.
ByName(jobs) ==
  LET names == InOrder({jobs[i].name : i \in DOMAIN jobs})
  IN  [n \in DOMAIN names |-> CHOOSE j \in Range(jobs) : j.name = names[n]]

GoDefaultsJob(j) ==
  LET p == Default(j.policy, NoPolicy)
      r == Default(p.retries, NoRetries)
  IN [name |-> j.name,
      schedules |-> IF j.schedules \notin Missing
                      THEN [i \in DOMAIN j.schedules |-> GoTrim(j.schedules[i])]
                    ELSE IF j.schedule \notin Missing THEN <<GoTrim(j.schedule)>>
                    ELSE <<>>,
      timezone |-> Default(j.timezone, "UTC"),
      request |-> [url |-> j.request.url,
                   method |-> Default(j.request.method, "POST"),
                   body |-> Default(j.request.body, "")],
      policy |-> [concurrency |-> Default(p.concurrency, "Forbid"),
                  scope |-> Default(p.scope, "host"),
                  timeout |-> Default(p.timeout, 60),
                  retries |-> [attempts |-> Default(r.attempts, 3),
                               min |-> Default(r.min, 1),
                               max |-> Default(r.max, 60)]],
      auth |-> [refs |-> IF j.auth \in Missing THEN <<>>
                                             ELSE Default(j.auth.refs, <<>>)]]

\* A default larger than what the other bound allows is cut down to it.
GoDefaultsClamped(m) ==
  [jobs |-> ByName([i \in DOMAIN m.jobs |->
    LET j == GoDefaultsJob(m.jobs[i])
    IN IF j.policy.retries.min > j.policy.retries.max
         THEN [j EXCEPT !.policy.retries.min = j.policy.retries.max] ELSE j])]

GoApplyDefaults(m) ==
  [jobs |-> ByName([i \in DOMAIN m.jobs |-> GoDefaultsJob(m.jobs[i])])]

-----------------------------------------------------------------------------
(* TypeScript.                                                             *)

\* An optional field may be left out and may not be null.
TsOneOf(x, S) == x = Omitted \/ x \in S

TsNumber(x, a, b) == x = Omitted \/ (x # Null /\ a <= x /\ x <= b)

\* validateSchedule: @every in any case, white space and digits; `in` finds
\* what SHORTCUTS inherits.
TsSchedule(s) ==
  LET f == s.form
  IN \/ f.kind = "fields" /\ "cron-parser" \in f.takenBy
     \/ f.kind \in {"shortcut", "inherited"} /\ s.pad # "nel"
     \/ /\ f.kind = "every" /\ s.pad # "nel" /\ f.sep \in {"space", "bom"}
        /\ ~f.plus /\ f.n \in 1..MaxNumber /\ f.unit \in DOMAIN Seconds
        /\ f.n * Seconds[f.unit] >= 60

TsURL(u) == u.form \in {"http", "hostless"} /\ "URL" \in u.takenBy

TsRetries(r) ==
  /\ TsNumber(r.attempts, 1, 10)
  /\ TsNumber(r.min, 0, MaxSafe) /\ TsNumber(r.max, 1, MaxSafe)
  /\ r.min = Omitted \/ r.max = Omitted \/ r.min <= r.max

TsPolicy(p) ==
  /\ TsOneOf(p.concurrency, Concurrencies) /\ TsOneOf(p.scope, Scopes)
  /\ TsNumber(p.timeout, 1, 600)
  /\ p.retries = Omitted \/ (p.retries # Null /\ TsRetries(p.retries))

TsAuth(a) ==
  \/ a.refs = Omitted
  \/ a.refs # Null /\ Len(a.refs) \in 1..8 /\ \A s \in Range(a.refs) : s.valid

TsJob(j) ==
  /\ (j.schedule = Omitted) # (j.schedules = Omitted)
  /\ j.schedule = Omitted \/ (j.schedule # Null /\ TsSchedule(j.schedule))
  /\ \/ j.schedules = Omitted
     \/ /\ j.schedules # Null /\ Len(j.schedules) \in 1..64
        /\ \A s \in Range(j.schedules) : TsSchedule(s)
  /\ j.timezone # Null /\ TsURL(j.request.url)
  /\ TsOneOf(j.request.method, Methods) /\ j.request.body # Null
  /\ j.policy = Omitted \/ (j.policy # Null /\ TsPolicy(j.policy))
  /\ j.auth = Omitted \/ (j.auth # Null /\ TsAuth(j.auth))

\* What the schema does not know is left out of what it gives.
TsParse(m) ==
  /\ Len(m.jobs) \in 1..256
  /\ \A j \in Range(m.jobs) : TsJob(j)
  /\ Cardinality({m.jobs[i].name : i \in DOMAIN m.jobs}) = Len(m.jobs)

TsTrim(s) == IF s.pad = "nel" THEN s ELSE [s EXCEPT !.pad = "none"]

\* j.policy ?? {} and policy.retries ?? {}, then a default per field.
TsDefaultsJob(j) ==
  LET of(x, f, d) == IF x \in Missing THEN d ELSE Default(x[f], d)
      r == of(j.policy, "retries", Omitted)
      trimmed(s) == [i \in DOMAIN s |-> TsTrim(s[i])]
  IN [name |-> j.name,
      schedules |-> trimmed(Default(j.schedules,
                      IF j.schedule # Omitted THEN <<j.schedule>> ELSE <<>>)),
      timezone |-> Default(j.timezone, "UTC"),
      request |-> [url |-> j.request.url,
                   method |-> Default(j.request.method, "POST"),
                   body |-> Default(j.request.body, "")],
      policy |-> [concurrency |-> of(j.policy, "concurrency", "Forbid"),
                  scope |-> of(j.policy, "scope", "host"),
                  timeout |-> of(j.policy, "timeout", 60),
                  retries |-> [attempts |-> of(r, "attempts", 3),
                               min |-> of(r, "min", 1),
                               max |-> of(r, "max", 60)]],
      auth |-> [refs |-> of(j.auth, "refs", <<>>)]]

TsApplyDefaults(m) ==
  [jobs |-> ByName([i \in DOMAIN m.jobs |-> TsDefaultsJob(m.jobs[i])])]

\* What `cronix apply` reads when the application serves m: the manifest the
\* SDK normalized (registry.ts, manifestFn), where `schedule` is gone.
Served(m) ==
  LET normal == TsApplyDefaults(m).jobs
  IN  [unknown |-> FALSE, jobs |-> [i \in DOMAIN normal |->
         [name |-> normal[i].name, schedule |-> Omitted,
          schedules |-> normal[i].schedules, timezone |-> normal[i].timezone,
          request |-> normal[i].request, policy |-> normal[i].policy,
          auth |-> normal[i].auth]]]

-----------------------------------------------------------------------------
NormalizeSpec == manifest \in Manifests /\ [][UNCHANGED manifest]_manifest

\* A schedule whose pad both languages trim.
AlikePad(s) == s.pad \in {"none", "space"}

\* What the two validators of schedules read differently: white space of one
\* language only, @every in capitals, without white space, with a sign or with
\* a number whose seconds do not fit, what every object has, and what one of
\* the two cron parsers takes.
AlikeSchedule(s) ==
  LET f == s.form
  IN /\ AlikePad(s) /\ f.kind # "inherited"
     /\ f.kind = "fields" => f.takenBy \in {{}, {"robfig", "cron-parser"}}
     /\ f.kind = "every" =>
          ~f.upper /\ f.sep = "space" /\ ~f.plus /\ f.n * 3600 <= MaxInt

AlikeURL(u) == u.form # "hostless" /\ u.takenBy \in {{}, {"net/url", "URL"}}

AlikeRetries(r) ==
  /\ Null \notin {r.attempts, r.min, r.max}
  /\ \A n \in {r.min, r.max} : n = Omitted \/ n <= MaxSafe

AlikePolicy(p) ==
  /\ p.concurrency # Null /\ p.scope # Null /\ p.timeout # Null /\ p.retries # Null
  /\ p.retries # Omitted => AlikeRetries(p.retries)

AlikePads(j) ==
  /\ j.schedule \notin Missing => AlikePad(j.schedule)
  /\ j.schedules \notin Missing =>
       \A i \in DOMAIN j.schedules : AlikePad(j.schedules[i])

AlikeJob(j) ==
  /\ j.schedule # Null /\ j.schedules # Null /\ j.timezone # Null
  /\ j.request.method # Null /\ j.request.body # Null
  /\ j.policy # Null /\ j.auth # Null
  /\ j.schedule # Omitted => AlikeSchedule(j.schedule)
  /\ j.schedules # Omitted =>
       \A i \in DOMAIN j.schedules : AlikeSchedule(j.schedules[i])
  /\ AlikeURL(j.request.url)
  /\ j.policy # Omitted => AlikePolicy(j.policy)
  /\ j.auth # Omitted => j.auth.refs # Null

\* A manifest without what the two languages take differently: fields that
\* neither knows, null, numbers past 2^53, and the schedules and URLs above.
SpeltAlike(m) == ~m.unknown /\ \A i \in DOMAIN m.jobs : AlikeJob(m.jobs[i])

\* Of the manifests that are spelt alike the two languages accept the same, not
\* only of "spec/manifest-vectors.json" (concepts/manifest.md:163).  Of all
\* that both accept, spelt alike or not, they make the same normal form, as
\* "Two implementations (TS and Go) must" (manifest.ts:198), if both trim what
\* is around its schedules; and whether apply reads such a manifest from a file
\* or, normalized already, from the application, if Parse takes that, makes no
\* difference to what it installs.
NormalFormsAgree ==
  /\ SpeltAlike(manifest) => (TsParse(manifest) <=> GoParse(manifest))
  /\ /\ TsParse(manifest) /\ GoParse(manifest)
     /\ \A i \in DOMAIN manifest.jobs : AlikePads(manifest.jobs[i])
     => /\ TsApplyDefaults(manifest) = GoApplyDefaults(manifest)
        /\ GoParse(Served(manifest)) =>
             GoApplyDefaults(Served(manifest)) = GoApplyDefaults(manifest)

\* "If your manifest validates in the SDK but is rejected by `cronix validate`,
\* file a bug." (concepts/manifest.md:163): what the SDK serves for a valid
\* manifest passes Parse.
ServedIsAccepted == TsParse(manifest) => GoParse(Served(manifest))
=============================================================================
