---------------------------- MODULE MCNormalize ----------------------------
(***************************************************************************)
(* Manifests that differ in one group of fields at a time, each at its     *)
(* bounds and just past them, in one job or in one of two.                 *)
(***************************************************************************)
EXTENDS Normalize

MCText == STRING

Both == {"robfig", "cron-parser"}
Fine == [text |-> "0 4 * * *", pad |-> "none", form |-> [kind |-> "fields", takenBy |-> Both]]
Padded == [text |-> "@hourly", pad |-> "space", form |-> [kind |-> "shortcut"]]
Bad == [text |-> "never", pad |-> "none", form |-> [kind |-> "other"]]

\* Numbers that are nothing, below and at a minute in seconds, and whose hours
\* or minutes fit in an int, wrap around to less or to more than a minute, or
\* which are too large themselves, for Go and for both.
Forms ==
  [kind : {"shortcut", "inherited", "other"}]
  \cup [kind : {"fields"}, takenBy : SUBSET Both]
  \cup [kind : {"every"}, upper : BOOLEAN, sep : Space, plus : BOOLEAN,
        n : {0, 1, 59, 60, 9, 10, 19, 547, 32768, 60001},
        unit : {"s", "m", "h", "other"}]

Known == [valid |-> TRUE]
Unknown == [valid |-> FALSE]

Copies(x, n) == [i \in 1..n |-> x]

Web == [form |-> "http", takenBy |-> {"net/url", "URL"}]

Base == [name |-> 1, schedule |-> Fine, schedules |-> Omitted, timezone |-> Omitted,
         request |-> [url |-> Web, method |-> Omitted, body |-> Omitted],
         policy |-> Omitted, auth |-> Omitted]

ScheduleJobs ==
  {[Base EXCEPT !.schedule = one, !.schedules = many, !.timezone = tz] :
     one \in {Omitted, Null, Fine, Padded, Bad}, tz \in {Omitted, Null, "Europe/Paris"},
     many \in {Omitted, Null, <<>>, <<Fine, Padded>>, <<Fine, Bad>>, Copies(Fine, 64),
               Copies(Fine, 65)}}

GrammarJobs ==
  {[Base EXCEPT !.schedule = [text |-> "text", pad |-> p, form |-> f]] :
     p \in Space, f \in Forms}

RequestJobs ==
  {[Base EXCEPT !.request = [url |-> u, method |-> x, body |-> b]] :
     u \in URL, x \in {Omitted, Null, "PUT", "HEAD"}, b \in {Omitted, Null, "text"}}

PolicyJobs ==
  {[Base EXCEPT !.policy = [concurrency |-> c, scope |-> s, timeout |-> t,
                            retries |-> Omitted]] :
     c \in {Omitted, Null, "Allow", "Queue"}, s \in {Omitted, Null, "global", "rack"},
     t \in {Omitted, Null, 0, 1, 600, 601}}
  \cup {[Base EXCEPT !.policy = Null],
        [Base EXCEPT !.policy = [NoPolicy EXCEPT !.retries = Null]]}

RetryJobs ==
  {[Base EXCEPT !.policy = [NoPolicy EXCEPT !.retries =
                              [attempts |-> n, min |-> a, max |-> b]]] :
     n \in {Omitted, Null, 0, 1, 10, 11}, a \in {Omitted, Null, -1, 0, 60, 61, 20001},
     b \in {Omitted, Null, 0, 1, 60, 61, 20001, 32768}}

AuthJobs ==
  {[Base EXCEPT !.auth = [refs |-> r]] :
     r \in {Omitted, Null, <<>>, <<Known>>, <<Known, Unknown>>, Copies(Known, 8),
            Copies(Known, 9)}}
  \cup {[Base EXCEPT !.auth = Null]}

Jobs == ScheduleJobs \cup RequestJobs \cup PolicyJobs \cup RetryJobs \cup AuthJobs

Manifest(jobs) == [jobs |-> jobs, unknown |-> FALSE]

MCManifests ==
  {Manifest(<<>>), [jobs |-> <<Base>>, unknown |-> TRUE]}
  \cup {Manifest([i \in 1..n |-> [Base EXCEPT !.name = n - i]]) : n \in {256, 257}}
  \cup {Manifest(<<j>>) : j \in Jobs \cup GrammarJobs}
  \cup {Manifest(<<[Base EXCEPT !.name = n], j>>) : j \in Jobs, n \in {1, 2}}
=============================================================================
